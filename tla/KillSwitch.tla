----------------------------- MODULE KillSwitch -----------------------------
(***************************************************************************)
(* KillSwitch.Engaged (killswitch.go): a ConfigMap read through the API    *)
(* server and cached for a TTL. A call holds the mutex from its look at    *)
(* the cache to its return, so calls follow one another; the clock and the *)
(* ConfigMap move on while a call waits for its read.                      *)
(***************************************************************************)
EXTENDS Naturals

CONSTANTS
    TTL,         \* how long a read is trusted, in ticks
    MaxLatency,  \* the longest a Get takes, in ticks
    MaxFlips,    \* bound on changes of the ConfigMap
    MaxOutages,  \* bound on failed Gets
    MaxClock     \* bound on the clock

ASSUME SwitchAssumption ==
    /\ TTL \in Nat \ {0}
    /\ {MaxLatency, MaxFlips, MaxOutages, MaxClock} \subseteq Nat

VARIABLES
    configMap,    \* the ConfigMap's engaged value, or that it is absent
    engaged, everRead, lastChecked,
    pc,           \* where the call under way is
    answer,       \* what its Get returned
    began,        \* when its Get was sent
    clock, flips, outages,
    changed,      \* history: when the ConfigMap last changed
    failed,       \* history: the last Get failed
    heard         \* history: a Get was answered since then

switchVars ==
    <<configMap, engaged, everRead, lastChecked, pc, answer, began, clock,
      flips, outages, changed, failed, heard>>

Value == {"true", "other", "absent"}

\* The first tick is TTL + MaxLatency: whatever is in the ConfigMap has been
\* there for longer than any answer may lag.
SwitchInit ==
    /\ configMap \in Value
    /\ engaged = FALSE /\ everRead = FALSE
    /\ failed = FALSE /\ heard = FALSE
    /\ pc = "idle" /\ answer = "absent"
    /\ lastChecked = 0 /\ began = 0 /\ changed = 0
    /\ clock = TTL + MaxLatency
    /\ flips = MaxFlips /\ outages = MaxOutages

\* A call returns the cached answer, and changes nothing.
Fresh == everRead /\ clock < lastChecked + TTL

\* A call has to read.
Send ==
    /\ pc = "idle" /\ ~Fresh
    /\ pc' = "sent" /\ began' = clock
    /\ UNCHANGED <<configMap, engaged, everRead, lastChecked, answer, clock,
                   flips, outages, changed, failed, heard>>

\* The API server answers, or the Get fails.
Serve ==
    /\ pc = "sent" /\ pc' = "served"
    /\ \/ /\ answer' = configMap /\ failed' = FALSE /\ heard' = TRUE
          /\ UNCHANGED outages
       \/ /\ outages > 0 /\ outages' = outages - 1
          /\ answer' = "error" /\ failed' = TRUE /\ UNCHANGED heard
    /\ UNCHANGED <<configMap, engaged, everRead, lastChecked, began, clock,
                   flips, changed>>

\* Mutant: a ConfigMap that is not found is taken for a failed read.
ReturnKeepsOnNotFound ==
    /\ pc = "served" /\ pc' = "idle"
    /\ lastChecked' = clock
    /\ IF answer \in {"error", "absent"}
       THEN UNCHANGED <<engaged, everRead>>
       ELSE engaged' = (answer = "true") /\ everRead' = TRUE
    /\ UNCHANGED <<configMap, answer, began, clock, flips, outages, changed,
                   failed, heard>>

\* Mutant: a failed read is taken for a disengaged switch.
ReturnFailsOpen ==
    /\ pc = "served" /\ pc' = "idle"
    /\ lastChecked' = clock
    /\ engaged' = (answer = "true") /\ everRead' = TRUE
    /\ UNCHANGED <<configMap, answer, began, clock, flips, outages, changed,
                   failed, heard>>

\* lastChecked is taken after the Get. An error keeps the last known value,
\* which is disengaged before the first read.
Return ==
    /\ pc = "served" /\ pc' = "idle"
    /\ lastChecked' = clock
    /\ IF answer = "error"
       THEN UNCHANGED <<engaged, everRead>>
       ELSE engaged' = (answer = "true") /\ everRead' = TRUE
    /\ UNCHANGED <<configMap, answer, began, clock, flips, outages, changed,
                   failed, heard>>

Flip ==
    /\ flips > 0 /\ flips' = flips - 1
    /\ configMap' \in Value \ {configMap}
    /\ changed' = clock /\ heard' = FALSE
    /\ UNCHANGED <<engaged, everRead, lastChecked, pc, answer, began, clock,
                   outages, failed>>

SwitchTick ==
    /\ clock < MaxClock
    /\ pc # "idle" => clock < began + MaxLatency
    /\ clock' = clock + 1
    /\ UNCHANGED <<configMap, engaged, everRead, lastChecked, pc, answer,
                   began, flips, outages, changed, failed, heard>>

SwitchNext == Send \/ Serve \/ Return \/ Flip \/ SwitchTick

SwitchSpec == SwitchInit /\ [][SwitchNext]_switchVars

-----------------------------------------------------------------------------
Armed == configMap = "true"

\* A change may go unnoticed: no Get has brought it back yet, and the last
\* one failed or the change is less than a TTL and one Get old. lastChecked is
\* set when the Get returns, hence the Get.
Unnoticed == ~heard /\ (failed \/ clock < changed + TTL + MaxLatency)

\* An answer from the cache is the ConfigMap's, unless its last change may go
\* unnoticed. In particular a change that was noticed survives failed Gets: "a
\* deliberately engaged switch must survive a flap".
CachedAnswerIsCurrent ==
    Fresh /\ pc = "idle" /\ ~Unnoticed => engaged = Armed

\* What is true between a change and its discovery: an answer on its way may
\* miss changes since its Get was sent, and the cached one those and the ones
\* since it came back.
SwitchInv ==
    /\ {lastChecked, began, clock, changed} \subseteq Nat
    /\ pc \in {"idle", "sent", "served"}
    /\ configMap \in Value
    /\ {engaged, everRead, failed, heard} \subseteq BOOLEAN
    /\ lastChecked <= clock /\ began <= clock
    /\ pc # "idle" => clock <= began + MaxLatency
    /\ pc = "served" /\ ~failed => answer = configMap \/ changed >= began
    /\ pc = "served" => (failed <=> answer = "error")
    /\ pc = "idle" /\ everRead /\ ~failed =>
        engaged = Armed \/ changed + MaxLatency >= lastChecked
    /\ heard => IF pc = "served" /\ ~failed THEN answer = configMap
                ELSE engaged = Armed
=============================================================================
