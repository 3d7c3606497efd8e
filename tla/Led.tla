-------------------------------- MODULE Led --------------------------------
(***************************************************************************)
(* The head LED: Host/LibCamera/Src/PeriodTask_LED.c.  Threads change the  *)
(* status (network, battery, error, factory reset) under g_rmLED; the      *)
(* status has a pattern, which ledShowState copies into g_status_LED; a    *)
(* period task steps through the pattern.  The task reads g_status_LED     *)
(* without g_rmLED: it may run between any two assignments of ledShowState, *)
(* and ledShowState may run while the task waits for the period lock.      *)
(*                                                                         *)
(* Of a pattern's times only two kinds matter: a step that is followed by  *)
(* another one soon ("blink"), and one that stays (time 0 in the pattern,  *)
(* ten minutes in the task).                                               *)
(***************************************************************************)
EXTENDS Integers, Sequences, SequencesExt

CONSTANTS Codes,        \* error codes in use (LED_ERROR_E)
          Flicks,       \* 6 in the code: green and red flicks per count
          MaxDes        \* 128 in the code: size of aDescriptor

ASSUME LedAssumption == /\ Codes \subseteq Nat \ {0} /\ Flicks \in Nat
                        /\ MaxDes \in Nat \ {0}

Des(colour, steady) == [colour |-> colour, steady |-> steady]
Blank   == Des("black", TRUE)           \* all zero

VARIABLES
    g_uLED_STATUS,      \* error (0: none), reset, low, network
    aDescriptor, ucDesNum, ucDesCurrent,        \* g_status_LED
    delay,              \* of g_prdtskUpdateLED: "off" (not the LED task yet), "now",
                        \* "blink", "long" (60000 ticks)
    led,                \* the colour that is on
    show,               \* how far ledShowState is; "idle": g_rmLED is free
    owner,              \* holder of g_rmLED: "prd" (a period task), "other" or "none"
    run,                \* how far prdTask_LED is
    pDescriptor         \* index of the step it shows

ledVars == <<g_uLED_STATUS, aDescriptor, ucDesNum, ucDesCurrent, delay, led, show,
             owner, run, pDescriptor>>

LedInit ==
    /\ g_uLED_STATUS = [error |-> 0, reset |-> FALSE, low |-> FALSE, network |-> "none"]
    /\ aDescriptor = [i \in 0 .. MaxDes - 1 |-> Blank]
    /\ ucDesNum = 0 /\ ucDesCurrent = 0
    /\ delay = "off"
    /\ led = "black"
    /\ show = "idle" /\ owner = "none"
    /\ run = "idle" /\ pDescriptor = 0

------------------------------------------------------------------------------
(* Patterns *)

\* ledShowState_Error: per count green and red flicker, then orange; black at the end.
ErrorPattern(code) ==
    LET count == 2 * Flicks + 1
        last  == code * count + 1
    IN  [i \in 1 .. IF last < MaxDes THEN last ELSE MaxDes |->
            Des(CASE i = last -> "black"
                  [] i # last /\ i % count = 0 -> "orange"
                  [] OTHER -> IF (i % count) % 2 = 1 THEN "green" ELSE "red", FALSE)]

NetworkColour(network) == CASE network = "streaming" -> "red"
                            [] network \in {"ready", "connected"} -> "green"
                            [] OTHER -> "orange"

\* ledUpdateStatus
Pattern(st) ==
    LET c == NetworkColour(st.network)
    IN  CASE st.error # 0 -> ErrorPattern(st.error)
          [] st.error = 0 /\ st.reset ->
                <<Des("red", FALSE), Des("green", FALSE), Des("orange", FALSE)>>
          [] st.error = 0 /\ ~st.reset /\ st.low -> <<Des(c, FALSE), Des("black", FALSE)>>
          [] OTHER -> <<Des(c, TRUE)>>

------------------------------------------------------------------------------
(* Changes of the status, and ledShowState *)

Shown(p) == /\ ucDesNum = Len(p)
            /\ \A i \in 1 .. Len(p) : aDescriptor[i - 1] = p[i]
            /\ delay # "off"

\* A setter with g_rmLED: the pattern is copied unless it is there already or too long.
Set(st, by) ==
    /\ owner = "none"
    /\ g_uLED_STATUS' = st
    /\ IF Shown(Pattern(st)) \/ Len(Pattern(st)) >= MaxDes
       THEN UNCHANGED <<show, owner>>
       ELSE show' = "copy" /\ owner' = by
    /\ UNCHANGED <<aDescriptor, ucDesNum, ucDesCurrent, delay, led, run, pDescriptor>>

ledError(code, by) == Set([g_uLED_STATUS EXCEPT !.error = code], by)

\* An error that is not the one shown leaves the status alone.
ledClearError(code, by) == /\ g_uLED_STATUS.error = code
                           /\ Set([g_uLED_STATUS EXCEPT !.error = 0], by)

ledSetFactoryDefault(by)   == Set([g_uLED_STATUS EXCEPT !.reset = TRUE], by)
ledClearFactoryDefault(by) == Set([g_uLED_STATUS EXCEPT !.reset = FALSE], by)
ledSetLowBattery(low, by)  == Set([g_uLED_STATUS EXCEPT !.low = low], by)
ledSetNetwork(n, by)       == Set([g_uLED_STATUS EXCEPT !.network = n], by)

\* g_rmLED is held, nothing changes, until ledWakeup.
ledSuspend == /\ owner = "none" /\ owner' = "other" /\ show' = "suspended"
              /\ UNCHANGED <<g_uLED_STATUS, aDescriptor, ucDesNum, ucDesCurrent, delay,
                             led, run, pDescriptor>>
ledWakeup  == /\ show = "suspended" /\ owner' = "none" /\ show' = "idle"
              /\ UNCHANGED <<g_uLED_STATUS, aDescriptor, ucDesNum, ucDesCurrent, delay,
                             led, run, pDescriptor>>

Copy ==
    /\ show = "copy" /\ show' = "num"
    /\ LET p == Pattern(g_uLED_STATUS)
       IN aDescriptor' = [i \in 0 .. MaxDes - 1 |->
                            IF i < Len(p) THEN p[i + 1] ELSE aDescriptor[i]]
    /\ UNCHANGED <<g_uLED_STATUS, ucDesNum, ucDesCurrent, delay, led, owner, run, pDescriptor>>

SetNum ==
    /\ show = "num" /\ show' = "current"
    /\ ucDesNum' = Len(Pattern(g_uLED_STATUS))
    /\ UNCHANGED <<g_uLED_STATUS, aDescriptor, ucDesCurrent, delay, led, owner, run, pDescriptor>>

SetCurrent ==
    /\ show = "current" /\ show' = "arm"
    /\ ucDesCurrent' = 0
    /\ UNCHANGED <<g_uLED_STATUS, aDescriptor, ucDesNum, delay, led, owner, run, pDescriptor>>

\* mutated: a task that is there already keeps its time
ArmedLate == IF delay = "off" THEN "now" ELSE delay

Armed == "now"

\* The task is deleted and added with time 0, g_rmLED is given back.
Arm ==
    /\ show = "arm" /\ show' = "idle" /\ owner' = "none"
    /\ delay' = Armed
    /\ UNCHANGED <<g_uLED_STATUS, aDescriptor, ucDesNum, ucDesCurrent, led, run, pDescriptor>>

------------------------------------------------------------------------------
(* prdTask_LED, called by the period thread; a task that shows a pattern is not *)
(* called while another task of that thread runs                               *)

Called == run = "idle" /\ owner # "prd" /\ delay # "off"

\* mutated: one step beyond the end
WrappedLate(i) == IF i > ucDesNum THEN 0 ELSE i

Wrapped(i) == IF i >= ucDesNum THEN 0 ELSE i

Step == /\ pDescriptor' = ucDesCurrent
        /\ ucDesCurrent' = Wrapped(ucDesCurrent + 1)
        /\ run' = "add"
        /\ UNCHANGED <<g_uLED_STATUS, aDescriptor, ucDesNum, delay, led, show, owner>>

prdTask_LED == Called /\ delay # "long" /\ Step

\* The same after ten minutes.
prdTask_LED_Late == Called /\ delay = "long" /\ Step

\* The period lock is held: deleted and added with the time of the step.
ReAdd ==
    /\ run = "add" /\ run' = "light"
    /\ delay' = IF aDescriptor[pDescriptor].steady THEN "long" ELSE "blink"
    /\ UNCHANGED <<g_uLED_STATUS, aDescriptor, ucDesNum, ucDesCurrent, led, show, owner, pDescriptor>>

Light ==
    /\ run = "light" /\ run' = "idle"
    /\ led' = aDescriptor[pDescriptor].colour
    /\ UNCHANGED <<g_uLED_STATUS, aDescriptor, ucDesNum, ucDesCurrent, delay, show, owner, pDescriptor>>

------------------------------------------------------------------------------
Setter == Copy \/ SetNum \/ SetCurrent \/ Arm
Task   == prdTask_LED \/ ReAdd \/ Light

\* Threads other than the period thread that report an error, reset the settings, or
\* suspend the system.
Report == \/ \E c \in Codes : ledError(c, "other") \/ ledClearError(c, "other")
          \/ ledSetFactoryDefault("other") \/ ledClearFactoryDefault("other")
          \/ ledSuspend \/ ledWakeup

------------------------------------------------------------------------------
(* Properties *)

\* prdTask_LED never shows a step that no pattern has set: it reads index and length
\* while ledShowState changes them one after the other, and a step of zeros would be
\* darkness for ten minutes.  Its index stays inside aDescriptor, as a pattern never fills
\* it, and g_rmLED is held exactly by a setter at work.
NeverBlank ==
    /\ run # "idle" => pDescriptor < MaxDes /\ aDescriptor[pDescriptor] # Blank
    /\ ucDesNum < MaxDes /\ ucDesCurrent < MaxDes
    /\ (owner = "none") <=> (show = "idle")

\* Once the status stays as it is, the LED shows colours of its pattern and no others,
\* without the ten-minute step to help, though the task may undo ledShowState's request
\* to be called at once.
Showing == LET p == Pattern(g_uLED_STATUS)
           IN  delay = "off" \/ \E i \in DOMAIN p : p[i].colour = led
Settles == []<><<g_uLED_STATUS' # g_uLED_STATUS>>_ledVars \/ <>[]Showing

------------------------------------------------------------------------------
(* The inductive invariant *)

Step_T == [colour : {"black", "red", "green", "orange"}, steady : BOOLEAN]

\* The one type invariant of the module.
LedTypeOK ==
    /\ g_uLED_STATUS \in [error : Nat, reset : BOOLEAN, low : BOOLEAN,
                          network : {"none", "try_connect", "ready", "streaming"}]
    /\ aDescriptor \in [0 .. MaxDes - 1 -> Step_T]
    /\ {ucDesNum, ucDesCurrent, pDescriptor} \subseteq 0 .. MaxDes - 1

Filled(n) == \A i \in 0 .. n - 1 : aDescriptor[i] # Blank

\* What was set once stays set: ucDesCurrent may be past the end of a shorter pattern.
PatternInv ==
    /\ owner = "none" <=> show = "idle"
    /\ show \in {"copy", "num", "current", "arm"} => Len(Pattern(g_uLED_STATUS)) < MaxDes
    /\ show \in {"num", "current", "arm"} => Filled(Len(Pattern(g_uLED_STATUS)))
    /\ Filled(ucDesNum)
    /\ ucDesCurrent # 0 => aDescriptor[ucDesCurrent] # Blank
    /\ delay # "off" => aDescriptor[0] # Blank
    /\ run # "idle" => delay # "off" /\ aDescriptor[pDescriptor] # Blank

\* Inductive.
LedInv == LedTypeOK /\ PatternInv
=============================================================================
