------------------------------ MODULE Coordinator ------------------------------
(***************************************************************************)
(* The operator's side, arbiter/coordinator/coordinator/ui.py: the states  *)
(* of TestCoordinatorApp, its dialogs, its request to the receiver and its *)
(* mirror of the DUT's run timer.                                          *)
(*                                                                         *)
(* Everything here runs on the one Tk thread.  transport.send blocks it,   *)
(* so that nothing else happens while a request is out.  A dialog does not *)
(* block it: its nested event loop keeps the buttons of the main window    *)
(* out, and lets `after` callbacks in, the mirror timer's among them.      *)
(* A handler that shows a dialog goes on when the dialog is closed, and    *)
(* dialogs close last in, first out.                                       *)
(*                                                                         *)
(* A beam run or a baseline is named by the request_id of its START.       *)
(***************************************************************************)
EXTENDS Sequences

CONSTANTS
  Runs,       \* the request_ids of the STARTs; they bound their number
  StopIds,    \* the request_ids of the STOPs
  Replies,    \* what transport.send may end in: a subset of ReplyKinds
  Mishaps,    \* what else may happen: a subset of MishapKinds
  None

StartCommands == {"START_TEST", "BASELINE_TEST"}
ReplyKinds == {"ACCEPTED", "REJECTED", "lost"}
\* The operator declines a dialog; the audit record of a request cannot be
\* saved; the work after an accepted request raises.
MishapKinds == {"decline", "audit", "raise"}

ASSUME RepliesAssumption == Replies \subseteq ReplyKinds
ASSUME MishapsAssumption == Mishaps \subseteq MishapKinds
ASSUME IdsAssumption == None \notin Runs \cup StopIds \cup StartCommands \cup {"STOP_TEST"}

VARIABLES
  state,      \* coordinator_state
  active,     \* active_test_request_id
  isBaseline, \* active_run_is_baseline
  mirror,     \* the run whose auto-stop is pending as _auto_stop_after_id
  dialogs,    \* the open dialogs, the last one first
  call,       \* the request that transport.send is busy with
  asked,      \* history: the command each run was asked for with
  reported    \* history: the runs whose results were shown

gui == <<state, active, isBaseline, mirror, dialogs, call, asked, reported>>

Request(cmd, id, run) == [cmd |-> cmd, id |-> id, run |-> run]
NoCall == Request("NONE", None, None)
Notice == Request("NOTICE", None, None)   \* a showinfo or showerror

TypeOK ==
  /\ state \in {"IDLE", "STARTING", "ACTIVE", "STOPPING"}
  /\ active \in Runs \cup {None}
  /\ isBaseline \in BOOLEAN
  /\ mirror \in Runs \cup {None}
  /\ dialogs \in Seq({Notice} \cup [cmd : StartCommands, id : Runs, run : Runs]
                     \cup [cmd : {"STOP_TEST"}, id : {None}, run : Runs])
  /\ call \in {NoCall} \cup [cmd : StartCommands, id : Runs, run : Runs]
              \cup [cmd : {"STOP_TEST"}, id : StopIds, run : Runs]
  /\ asked \in [Runs -> StartCommands \cup {None}]
  /\ reported \subseteq Runs

Init ==
  /\ state = "IDLE" /\ active = None /\ isBaseline = FALSE /\ mirror = None
  /\ dialogs = <<>> /\ call = NoCall
  /\ asked = [r \in Runs |-> None]
  /\ reported = {}

TkFree == call = NoCall
ButtonsFree == TkFree /\ dialogs = <<>>
Asking(cmds) == TkFree /\ dialogs # <<>> /\ Head(dialogs).cmd \in cmds

-----------------------------------------------------------------------------
(* _on_start_test and _on_baseline_test up to their request *)

\* MUTANT of AskStart: the button is enabled in every state.
AskStartAnytime ==
  \E r \in Runs, cmd \in StartCommands :
    /\ ButtonsFree
    /\ asked[r] = None
    /\ dialogs' = <<Request(cmd, r, r)>>
    /\ asked' = [asked EXCEPT ![r] = cmd]
    /\ UNCHANGED <<state, active, isBaseline, mirror, call, reported>>

AskStart ==
  \E r \in Runs, cmd \in StartCommands :
    /\ ButtonsFree
    /\ state = "IDLE"
    /\ asked[r] = None
    /\ dialogs' = <<Request(cmd, r, r)>>
    /\ asked' = [asked EXCEPT ![r] = cmd]
    /\ UNCHANGED <<state, active, isBaseline, mirror, call, reported>>

SendStart ==
  /\ Asking(StartCommands)
  /\ dialogs' = Tail(dialogs)
  /\ call' = Head(dialogs)
  /\ state' = "STARTING"
  /\ UNCHANGED <<active, isBaseline, mirror, asked, reported>>

\* No audit record, no request.
StartUnrecorded ==
  /\ Asking(StartCommands)
  /\ "audit" \in Mishaps
  /\ dialogs' = <<Notice>> \o Tail(dialogs)
  /\ active' = None
  /\ state' = "IDLE"
  /\ UNCHANGED <<isBaseline, mirror, call, asked, reported>>

(* _on_stop_test up to its request *)

\* MUTANT of AskStop: the check for a missing request is dropped.
AskStopUnchecked ==
  /\ ButtonsFree
  /\ state = "ACTIVE"
  /\ mirror' = None
  /\ dialogs' = <<Request("STOP_TEST", None, active)>>
  /\ UNCHANGED <<state, active, isBaseline, call, asked, reported>>

\* The operator's click; without a request to stop it is refused.
AskStop ==
  /\ ButtonsFree
  /\ state = "ACTIVE"
  /\ mirror' = None
  /\ dialogs' = IF active = None THEN <<>>
                ELSE <<Request("STOP_TEST", None, active)>>
  /\ UNCHANGED <<state, active, isBaseline, call, asked, reported>>

SubmitStop(run) ==
  \/ \E id \in StopIds :
       /\ call' = Request("STOP_TEST", id, run)
       /\ state' = "STOPPING"
  \/ /\ "audit" \in Mishaps
     /\ state' = "ACTIVE"
     /\ UNCHANGED call

SendStop ==
  /\ Asking({"STOP_TEST"})
  /\ SubmitStop(Head(dialogs).run)
  /\ dialogs' = IF state' = "ACTIVE" THEN <<Notice>> \o Tail(dialogs) ELSE Tail(dialogs)
  /\ UNCHANGED <<active, isBaseline, mirror, asked, reported>>

\* askyesno answered no: the handler returns.
Decline ==
  /\ Asking(StartCommands \cup {"STOP_TEST"})
  /\ "decline" \in Mishaps
  /\ dialogs' = Tail(dialogs)
  /\ UNCHANGED <<state, active, isBaseline, mirror, call, asked, reported>>

Dismiss ==
  /\ Asking({"NOTICE"})
  /\ dialogs' = Tail(dialogs)
  /\ UNCHANGED <<state, active, isBaseline, mirror, call, asked, reported>>

\* MUTANT of FireMirror: the callback waits until no dialog is open.
FireMirrorUndisturbed ==
  /\ ButtonsFree
  /\ mirror # None
  /\ mirror' = None
  /\ IF state = "ACTIVE" /\ active # None
       THEN /\ SubmitStop(active)
            /\ dialogs' = IF state' = "ACTIVE" THEN <<Notice>> \o dialogs ELSE dialogs
       ELSE UNCHANGED <<state, call, dialogs>>
  /\ UNCHANGED <<active, isBaseline, asked, reported>>

\* _auto_stop_fire: duration_s is over; _on_stop_test without its dialog.
FireMirror ==
  /\ TkFree
  /\ mirror # None
  /\ mirror' = None
  /\ IF state = "ACTIVE" /\ active # None
       THEN /\ SubmitStop(active)
            /\ dialogs' = IF state' = "ACTIVE" THEN <<Notice>> \o dialogs ELSE dialogs
       ELSE UNCHANGED <<state, call, dialogs>>
  /\ UNCHANGED <<active, isBaseline, asked, reported>>

-----------------------------------------------------------------------------
(* The end of transport.send *)

Starting == call.cmd \in StartCommands
Stopping == call.cmd = "STOP_TEST"

EndCall ==
  /\ call' = NoCall
  /\ dialogs' = <<Notice>> \o dialogs
  /\ UNCHANGED asked

\* MUTANT of StartAccepted: a mirror that is still pending is not replaced.
StartAcceptedKeepsMirror ==
  /\ Starting
  /\ active' = call.run
  /\ isBaseline' = (call.cmd = "BASELINE_TEST" \/ isBaseline)
  /\ state' = "ACTIVE"
  /\ mirror' = IF mirror = None THEN call.run ELSE mirror
  /\ EndCall
  /\ UNCHANGED reported

StartAccepted ==
  /\ Starting
  /\ active' = call.run
  /\ isBaseline' = (call.cmd = "BASELINE_TEST" \/ isBaseline)
  /\ state' = "ACTIVE"
  /\ mirror' = call.run
  /\ EndCall
  /\ UNCHANGED reported

\* `except Exception`: no reply, a rejection or an error of the GUI's own.
StartError(pending) ==
  /\ Starting
  /\ active' = None
  /\ isBaseline' = (call.cmd # "BASELINE_TEST" /\ isBaseline)
  /\ state' = "IDLE"
  /\ mirror' = pending
  /\ EndCall
  /\ UNCHANGED reported

StartFailed == StartError(mirror)

\* The work after an accepted START raises, before or after the mirror is scheduled.
StartRaises ==
  /\ "raise" \in Mishaps
  /\ \E pending \in {mirror, call.run} : StartError(pending)

\* MUTANT of StopAccepted: the flag is left to the next START.
StopAcceptedKeepsFlag ==
  /\ Stopping
  /\ active' = None
  /\ isBaseline' = isBaseline
  /\ state' = "IDLE"
  /\ reported' = reported \cup {call.run}
  /\ EndCall
  /\ UNCHANGED mirror

StopAccepted ==
  /\ Stopping
  /\ active' = None
  /\ isBaseline' = FALSE
  /\ state' = "IDLE"
  /\ reported' = reported \cup {call.run}
  /\ EndCall
  /\ UNCHANGED mirror

\* MUTANT of StopFailed: a failed STOP is taken for the end of the run.
StopFailedForgets ==
  /\ Stopping
  /\ active' = None
  /\ state' = "ACTIVE"
  /\ EndCall
  /\ UNCHANGED <<isBaseline, mirror, reported>>

StopFailed ==
  /\ Stopping
  /\ state' = "ACTIVE"
  /\ EndCall
  /\ UNCHANGED <<active, isBaseline, mirror, reported>>

\* The collection of the results raises: the request is gone already, and the
\* state goes back to ACTIVE.
StopRaises ==
  /\ Stopping
  /\ "raise" \in Mishaps
  /\ active' = None
  /\ isBaseline' \in {isBaseline, FALSE}
  /\ state' = "ACTIVE"
  /\ EndCall
  /\ UNCHANGED <<mirror, reported>>

Accept == StartAccepted \/ StartRaises \/ StopAccepted \/ StopRaises
Fail == StartFailed \/ StopFailed

\* Any receiver at the other end.
Answer ==
  \/ "ACCEPTED" \in Replies /\ Accept
  \/ Replies \cap {"REJECTED", "lost"} # {} /\ Fail

-----------------------------------------------------------------------------
Operator == AskStart \/ AskStop \/ Decline \/ Dismiss
Submit == SendStart \/ StartUnrecorded \/ SendStop

Next == Operator \/ Submit \/ FireMirror \/ Answer

Spec == Init /\ [][Next]_gui

\* The Tk loop runs due callbacks, transport.send ends by its timeout, and the
\* operator answers a confirmation sooner or later.
Fairness == WF_gui(FireMirror) /\ WF_gui(Answer) /\ WF_gui(Submit \/ Decline)

FairSpec == Spec /\ Fairness

-----------------------------------------------------------------------------
\* A mirror never stops another run than the one it was scheduled for, even
\* when an error left it pending behind an IDLE state.
MirrorStopsItsRun == mirror # None /\ state = "ACTIVE" => mirror = active

\* The results of a run are those of its kind: the flag that decides whether a
\* current CSV is collected belongs to the active run.
BaselineFlag ==
  state \in {"ACTIVE", "STOPPING"} /\ active # None =>
    isBaseline = (asked[active] = "BASELINE_TEST")

\* While a test is shown as active there is a request that Stop can name; only
\* then is there a mirror, for that run; at IDLE there is neither.  It holds as
\* long as nothing raises after an accepted request.
ActiveHasRequest ==
  /\ state \in {"ACTIVE", "STOPPING"} <=> active # None
  /\ mirror # None => state = "ACTIVE" /\ mirror = active

\* The mirror leads to a STOP of its run, whatever dialogs are open: the run
\* ends for the GUI, or a STOP of it failed or was declined.
MirrorActs ==
  \A r \in Runs : mirror = r ~>
    \/ active # r
    \/ mirror = None /\ state = "ACTIVE" /\ TkFree /\ ~Asking({"STOP_TEST"})

\* "This mirror fires at the same duration so the GUI retrieves the summary/CSV
\* and returns to IDLE without an operator click."
ReturnsToIdle == state = "ACTIVE" ~> state = "IDLE"
=============================================================================
