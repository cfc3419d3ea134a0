--------------------------- MODULE CoordinatorProofs ---------------------------
(***************************************************************************)
(* Theorems about Coordinator, for any set of runs, replies and mishaps:   *)
(* its variables keep their types, a mirror never stops another run than   *)
(* its own, the baseline flag belongs to the active run, and, if nothing   *)
(* raises after an accepted request, an active test has a request.         *)
(***************************************************************************)
EXTENDS Coordinator, SequenceTheorems, TLAPS

StartRequests == [cmd : StartCommands, id : Runs, run : Runs]
StopRequests(ids) == [cmd : {"STOP_TEST"}, id : ids, run : Runs]
Dialogs == {Notice} \cup StartRequests \cup StopRequests({None})

OnlyNotices(ds) == ds \in Seq({Notice})

\* A confirmation is the only dialog, in the state its button is enabled in; no
\* mirror is pending behind that of a STOP.
Confirmations ==
  \/ OnlyNotices(dialogs)
  \/ /\ TkFree /\ Len(dialogs) = 1
     /\ \/ /\ dialogs[1] \in StartRequests
           /\ state = "IDLE" /\ asked[dialogs[1].run] = dialogs[1].cmd
        \/ /\ dialogs[1] \in StopRequests({None})
           /\ state = "ACTIVE" /\ mirror = None

\* The state tells which request is out, and the mirror is off during a STOP.
Calls ==
  /\ state = "STARTING" <=> Starting
  /\ state = "STOPPING" <=> Stopping
  /\ Starting => asked[call.run] = call.cmd
  /\ Stopping => mirror = None

\* What the properties rest on: the flag is down between runs, and whatever is
\* active was asked for.
Actives ==
  /\ mirror # None /\ state = "ACTIVE" => mirror = active
  /\ state \in {"IDLE", "STARTING"} => ~isBaseline
  /\ active # None => asked[active] # None
  /\ BaselineFlag

Inv == TypeOK /\ Confirmations /\ Calls /\ Actives

-----------------------------------------------------------------------------
(* Stacks of dialogs *)

LEMMA Pushed ==
  ASSUME NEW ds \in Seq(Dialogs), OnlyNotices(ds)
  PROVE  <<Notice>> \o ds \in Seq(Dialogs) /\ OnlyNotices(<<Notice>> \o ds)
  BY DEF OnlyNotices, Dialogs

LEMMA Single ==
  /\ <<>> \in Seq(Dialogs) /\ OnlyNotices(<<>>)
  /\ OnlyNotices(<<Notice>>) /\ <<Notice>> \o <<>> = <<Notice>>
  /\ \A q \in Dialogs : <<q>> \in Seq(Dialogs) /\ Len(<<q>>) = 1 /\ <<q>>[1] = q
  BY DEF OnlyNotices, Dialogs

LEMMA Popped ==
  ASSUME NEW ds \in Seq(Dialogs), ds # <<>>
  PROVE  /\ Head(ds) = ds[1] /\ ds[1] \in Dialogs
         /\ Tail(ds) \in Seq(Dialogs)
         /\ OnlyNotices(ds) => OnlyNotices(Tail(ds)) /\ ds[1] = Notice
         /\ Len(ds) = 1 => Tail(ds) = <<>>
<1>1. Head(ds) = ds[1] /\ ds[1] \in Dialogs
  OBVIOUS
<1>2. Tail(ds) \in Seq(Dialogs)
  OBVIOUS
<1>3. Len(ds) = 1 => Tail(ds) = <<>>
  <2>1. Len(Tail(ds)) = Len(ds) - 1
    BY HeadTailProperties
  <2>2. Len(ds) = 1 => Len(Tail(ds)) = 0
    BY <2>1
  <2>3. QED
    BY <1>2, <2>2, EmptySeq
<1>4. OnlyNotices(ds) => OnlyNotices(Tail(ds)) /\ ds[1] = Notice
  BY DEF OnlyNotices
<1>5. QED
  BY <1>1, <1>2, <1>3, <1>4

LEMMA Kinds ==
  /\ Notice.cmd = "NOTICE" /\ NoCall.cmd = "NONE"
  /\ \A q \in StartRequests : q.cmd \in StartCommands /\ q.run \in Runs /\ q # NoCall
  /\ \A ids : \A q \in StopRequests(ids) : q.cmd = "STOP_TEST" /\ q.run \in Runs /\ q # NoCall
  /\ \A id \in StopIds, r \in Runs : Request("STOP_TEST", id, r) \in StopRequests(StopIds)
  /\ \A r \in Runs : Request("STOP_TEST", None, r) \in StopRequests({None})
  /\ \A r \in Runs, cmd \in StartCommands : Request(cmd, r, r) \in StartRequests
  BY DEF Notice, NoCall, Request, StartRequests, StopRequests, StartCommands

\* A confirmation that is open, and what a call leaves of the dialogs.
LEMMA Open ==
  ASSUME Inv, dialogs # <<>>, Head(dialogs).cmd # "NOTICE"
  PROVE  /\ TkFree /\ Len(dialogs) = 1 /\ Tail(dialogs) = <<>>
         /\ Head(dialogs).cmd \in StartCommands =>
              /\ Head(dialogs) \in StartRequests /\ state = "IDLE"
              /\ asked[Head(dialogs).run] = Head(dialogs).cmd
         /\ Head(dialogs).cmd = "STOP_TEST" =>
              Head(dialogs) \in StopRequests({None}) /\ state = "ACTIVE" /\ mirror = None
<1>1. dialogs \in Seq(Dialogs)
  BY DEF Inv, TypeOK, Dialogs, StartRequests, StopRequests
<1>2. Head(dialogs) = dialogs[1] /\ ~OnlyNotices(dialogs)
  BY <1>1, Popped, Kinds
<1>3. QED
  BY <1>1, <1>2, Popped, Kinds DEF Inv, Confirmations, StartCommands

LEMMA Busy ==
  ASSUME Inv, ~TkFree
  PROVE  dialogs \in Seq(Dialogs) /\ OnlyNotices(dialogs)
  BY DEF Inv, TypeOK, Confirmations, Dialogs, StartRequests, StopRequests
LEMMA TypeByParts ==
  TypeOK <=>
    /\ state \in {"IDLE", "STARTING", "ACTIVE", "STOPPING"}
    /\ active \in Runs \cup {None} /\ isBaseline \in BOOLEAN /\ mirror \in Runs \cup {None}
    /\ dialogs \in Seq(Dialogs)
    /\ call \in {NoCall} \cup StartRequests \cup StopRequests(StopIds)
    /\ asked \in [Runs -> StartCommands \cup {None}] /\ reported \subseteq Runs
  BY DEF TypeOK, Dialogs, StartRequests, StopRequests

-----------------------------------------------------------------------------
(* The steps *)

\* The state of the application, apart from its dialogs.
LEMMA InvInit == Init => Inv
<1> SUFFICES ASSUME Init PROVE Inv
  OBVIOUS
<1>1. dialogs \in Seq(Dialogs) /\ OnlyNotices(dialogs)
  BY DEF Init, OnlyNotices
<1>2. QED
  BY <1>1, Kinds
     DEF Init, Inv, TypeOK, Confirmations, Calls, Actives, BaselineFlag, Starting, Stopping,
         StartCommands, Dialogs, StartRequests, StopRequests

\* Whatever the receiver's answers are.
Moves == Operator \/ Submit \/ FireMirror \/ Accept \/ Fail

LEMMA InvStep == Inv /\ [Moves]_gui => Inv'
<1> SUFFICES ASSUME Inv, [Moves]_gui PROVE Inv'
  OBVIOUS
<1>0. dialogs \in Seq(Dialogs)
  BY DEF Inv, TypeOK, Dialogs, StartRequests, StopRequests
<1>1. ASSUME AskStart PROVE Inv'
  <2>1. PICK r \in Runs, cmd \in StartCommands :
          /\ TkFree /\ state = "IDLE" /\ asked[r] = None
          /\ dialogs' = <<Request(cmd, r, r)>>
          /\ asked' = [asked EXCEPT ![r] = cmd]
          /\ UNCHANGED <<state, active, isBaseline, mirror, call, reported>>
    BY <1>1 DEF AskStart, ButtonsFree
  <2>2. Request(cmd, r, r) \in StartRequests /\ Request(cmd, r, r).run = r
        /\ Request(cmd, r, r).cmd = cmd
    BY Kinds DEF Request
  <2>3. TypeOK'
    BY <2>1, <2>2 DEF Inv, TypeOK, StartRequests
  <2>4. Confirmations'
    BY <2>1, <2>2 DEF Inv, TypeOK, Confirmations, TkFree
  <2>5. Calls'
    BY <2>1, Kinds DEF Inv, Calls, TkFree, Starting, Stopping, StartCommands
  <2>6. Actives'
    BY <2>1 DEF Inv, TypeOK, Actives, BaselineFlag
  <2>7. QED
    BY <2>3, <2>4, <2>5, <2>6 DEF Inv
<1>2. ASSUME AskStop PROVE Inv'
  <2>1. active # None => Request("STOP_TEST", None, active) \in StopRequests({None})
    BY Kinds DEF Inv, TypeOK
  <2>0. dialogs' \in Seq(Dialogs)
    BY <1>2, <2>1, Single DEF AskStop, Dialogs
  <2>2. TypeOK'
    BY <1>2, <2>0, TypeByParts DEF AskStop, Inv, TypeOK, Dialogs, StartRequests, StopRequests
  <2>3. Confirmations'
    BY <1>2, <2>1 DEF AskStop, ButtonsFree, TkFree, Confirmations, OnlyNotices
  <2>4. Calls' /\ Actives'
    BY <1>2 DEF AskStop, Inv, Calls, Actives, BaselineFlag, Starting, Stopping
  <2>5. QED
    BY <2>2, <2>3, <2>4 DEF Inv
<1>3. ASSUME Decline PROVE Inv'
  <2>1. dialogs' = <<>>
    BY <1>3, Open DEF Decline, Asking, StartCommands
  <2>2. TypeOK'
    BY <1>3, <2>1, Single
       DEF Decline, Inv, TypeOK, Dialogs, StartRequests, StopRequests
  <2>3. Confirmations'
    BY <2>1, Single DEF Confirmations, OnlyNotices
  <2>4. Calls' /\ Actives'
    BY <1>3 DEF Decline, Inv, Calls, Actives, BaselineFlag, Starting, Stopping
  <2>5. QED
    BY <2>2, <2>3, <2>4 DEF Inv
<1>4. ASSUME Dismiss PROVE Inv'
  <2>1. OnlyNotices(dialogs) /\ dialogs # <<>>
    <3>1. Head(dialogs) = dialogs[1] /\ dialogs[1].cmd = "NOTICE"
      BY <1>4, <1>0, Popped DEF Dismiss, Asking
    <3>2. QED
      BY <1>4, <3>1, Kinds DEF Dismiss, Asking, Inv, Confirmations, StartCommands
  <2>2. dialogs' \in Seq(Dialogs) /\ OnlyNotices(dialogs')
    BY <1>4, <1>0, <2>1, Popped DEF Dismiss
  <2>3. QED
    BY <1>4, <2>2
       DEF Dismiss, Inv, TypeOK, Confirmations, OnlyNotices, Calls, Actives, BaselineFlag,
           Starting, Stopping, Dialogs, StartRequests, StopRequests
<1>5. ASSUME SendStart PROVE Inv'
  <2>1. /\ dialogs' = <<>> /\ call' \in StartRequests
        /\ state = "IDLE" /\ asked[call'.run] = call'.cmd
    BY <1>5, Open DEF SendStart, Asking, StartCommands
  <2>2. call'.cmd \in StartCommands /\ call' # NoCall
    BY <2>1, Kinds
  <2>3. TypeOK'
    BY <1>5, <2>1, Single
       DEF SendStart, Inv, TypeOK, Dialogs, StartRequests, StopRequests
  <2>4. Confirmations'
    BY <2>1, Single DEF Confirmations, OnlyNotices
  <2>5. Calls' /\ Actives'
    BY <1>5, <2>1, <2>2
       DEF SendStart, Inv, Calls, Actives, BaselineFlag, Starting, Stopping, StartCommands
  <2>6. QED
    BY <2>3, <2>4, <2>5 DEF Inv
<1>6. ASSUME StartUnrecorded PROVE Inv'
  <2>1. Tail(dialogs) = <<>> /\ state = "IDLE"
    BY <1>6, Open DEF StartUnrecorded, Asking, StartCommands
  <2>2. dialogs' = <<Notice>>
    BY <1>6, <2>1, Single DEF StartUnrecorded
  <2>3. TypeOK'
    BY <1>6, <2>2, Single
       DEF StartUnrecorded, Inv, TypeOK, Dialogs, StartRequests, StopRequests
  <2>4. Confirmations'
    BY <2>2, Single DEF Confirmations, OnlyNotices
  <2>5. Calls' /\ Actives'
    BY <1>6, <2>1
       DEF StartUnrecorded, Inv, Calls, Actives, BaselineFlag, Starting, Stopping
  <2>6. QED
    BY <2>3, <2>4, <2>5 DEF Inv
<1>7. ASSUME SendStop PROVE Inv'
  <2>1. /\ TkFree /\ Tail(dialogs) = <<>> /\ Head(dialogs).run \in Runs
        /\ state = "ACTIVE" /\ mirror = None
    BY <1>7, Open, Kinds DEF SendStop, Asking, StartCommands
  <2>2. \/ /\ dialogs' = <<Notice>> /\ UNCHANGED <<call, state>>
        \/ /\ dialogs' = <<>> /\ state' = "STOPPING" /\ call' \in StopRequests(StopIds)
    BY <1>7, <2>1, Kinds, Single DEF SendStop, SubmitStop
  <2>3. dialogs' \in Seq(Dialogs) /\ Confirmations'
    BY <2>2, Single DEF Confirmations, OnlyNotices, Dialogs
  <2>4. TypeOK'
    BY <1>7, <2>2, <2>3
       DEF SendStop, Inv, TypeOK, Dialogs, StartRequests, StopRequests
  <2>5. call' = call \/ (call'.cmd = "STOP_TEST" /\ call' # NoCall)
    BY <2>2, Kinds
  <2>6. call = NoCall /\ ~Starting /\ ~Stopping
    BY <1>7, Kinds DEF SendStop, Asking, TkFree, Starting, Stopping, StartCommands
  <2>7. Calls'
    <3>1. CASE call' = call
      BY <2>1, <2>2, <2>6, <3>1, Kinds DEF Calls, Starting, Stopping
    <3>2. CASE call'.cmd = "STOP_TEST" /\ state' = "STOPPING"
      BY <1>7, <2>1, <3>2 DEF SendStop, Calls, Starting, Stopping, StartCommands
    <3>3. QED
      BY <2>2, <3>1, <3>2, Kinds
  <2>8. Actives'
    BY <1>7, <2>1, <2>2 DEF SendStop, Inv, Actives, BaselineFlag
  <2>9. QED
    BY <2>3, <2>4, <2>7, <2>8 DEF Inv
<1>8. ASSUME FireMirror PROVE Inv'
  <2>1. CASE ~(state = "ACTIVE" /\ active # None)
    BY <1>8, <2>1
       DEF FireMirror, Inv, TypeOK, Confirmations, OnlyNotices, TkFree, Calls, Actives,
           BaselineFlag, Starting, Stopping
  <2>2. CASE state = "ACTIVE" /\ active # None
    <3>1. active \in Runs /\ OnlyNotices(dialogs)
      BY <1>8, <2>2 DEF FireMirror, Inv, TypeOK, Confirmations
    <3>2. CASE state' = "ACTIVE"
      <4>1. /\ dialogs' \in Seq(Dialogs) /\ OnlyNotices(dialogs')
            /\ UNCHANGED call
        BY <1>8, <1>0, <2>2, <3>1, <3>2, Pushed DEF FireMirror, SubmitStop
      <4>2. QED
        BY <1>8, <2>2, <3>2, <4>1
           DEF FireMirror, Inv, TypeOK, Confirmations, Calls, Actives, BaselineFlag, Starting,
               Stopping, Dialogs, StartRequests, StopRequests
    <3>3. CASE state' # "ACTIVE"
      <4>1. /\ UNCHANGED dialogs /\ state' = "STOPPING"
            /\ call' \in StopRequests(StopIds)
        BY <1>8, <2>2, <3>1, <3>3, Kinds DEF FireMirror, SubmitStop
      <4>2. call'.cmd = "STOP_TEST" /\ call' # NoCall
        BY <4>1, Kinds
      <4>3. QED
        BY <1>8, <2>2, <3>1, <4>1, <4>2
           DEF FireMirror, Inv, TypeOK, Confirmations, OnlyNotices, Calls, Actives,
               BaselineFlag, Starting, Stopping, StartCommands, StopRequests
    <3>4. QED
      BY <3>2, <3>3
  <2>3. QED
    BY <2>1, <2>2
<1>9. ASSUME Starting \/ Stopping, EndCall
      PROVE  dialogs' \in Seq(Dialogs) /\ OnlyNotices(dialogs') /\ call' = NoCall
             /\ UNCHANGED asked /\ (call.cmd \in StartCommands \/ call.cmd = "STOP_TEST")
             /\ call.run \in Runs /\ ~(Starting /\ Stopping)
  <2>1. ~TkFree
    BY <1>9, Kinds DEF Starting, Stopping, TkFree, StartCommands
  <2>2. call \in StartRequests \cup StopRequests(StopIds)
    BY <2>1 DEF Inv, TypeOK, TkFree, StartRequests, StopRequests
  <2>3. QED
    BY <1>9, <2>1, <2>2, Busy, Pushed, Kinds
       DEF EndCall, Starting, Stopping, StartCommands
<1>10. ASSUME StartAccepted PROVE Inv'
  <2>1. EndCall /\ Starting
    BY <1>10 DEF StartAccepted
  <2>2. /\ dialogs' \in Seq(Dialogs) /\ OnlyNotices(dialogs') /\ call' = NoCall
        /\ UNCHANGED <<asked, reported>> /\ call.run \in Runs /\ call.cmd \in StartCommands
        /\ asked[call.run] = call.cmd /\ ~isBaseline
        /\ active' = call.run /\ mirror' = call.run /\ state' = "ACTIVE"
        /\ isBaseline' = (call.cmd = "BASELINE_TEST")
    <3>1. ~isBaseline /\ asked[call.run] = call.cmd
      BY <2>1 DEF Inv, Calls, Actives
    <3>2. isBaseline' = (call.cmd = "BASELINE_TEST")
      BY <1>10, <3>1 DEF StartAccepted
    <3>3. QED
      BY <1>9, <1>10, <2>1, <3>1, <3>2 DEF StartAccepted, Starting
  <2>3. TypeOK'
    BY <2>2 DEF Inv, TypeOK, Dialogs, StartRequests, StopRequests
  <2>4. Confirmations' /\ Calls'
    BY <2>2, Kinds DEF Confirmations, Calls, Starting, Stopping, StartCommands
  <2>5. BaselineFlag'
    BY <2>2 DEF BaselineFlag
  <2>6. Actives'
    BY <2>2, <2>5, IdsAssumption DEF Actives
  <2>7. QED
    BY <2>3, <2>4, <2>6 DEF Inv
<1>11. ASSUME StartFailed \/ StartRaises PROVE Inv'
  <2>1. PICK pending \in Runs \cup {None} : StartError(pending)
    <3>1. CASE StartFailed
      BY <3>1 DEF StartFailed, Inv, TypeOK
    <3>2. CASE StartRaises
      BY <1>9, <3>2 DEF StartRaises, StartError, Inv, TypeOK
    <3>3. QED
      BY <1>11, <3>1, <3>2
  <2>2. EndCall /\ Starting
    BY <2>1 DEF StartError
  <2>3. QED
    BY <1>9, <2>1, <2>2, Kinds
       DEF StartError, Inv, TypeOK, Confirmations, Calls, Actives, BaselineFlag, Starting,
           Stopping, StartCommands, Dialogs, StartRequests, StopRequests
<1>12. ASSUME StopAccepted \/ StopFailed \/ StopRaises PROVE Inv'
  <2>1. EndCall /\ Stopping
    BY <1>12 DEF StopAccepted, StopFailed, StopRaises
  <2>2. QED
    BY ZenonT(60), <1>9, <1>12, <2>1, Kinds
       DEF StopAccepted, StopFailed, StopRaises, Inv, TypeOK, Confirmations, Calls, Actives,
           BaselineFlag, Starting, Stopping, StartCommands, Dialogs, StartRequests,
           StopRequests
<1>13. CASE UNCHANGED gui
  BY <1>13
     DEF gui, Inv, TypeOK, Confirmations, OnlyNotices, TkFree, Calls, Actives, BaselineFlag,
         Starting, Stopping
<1>14. QED
  BY <1>1, <1>2, <1>3, <1>4, <1>5, <1>6, <1>7, <1>8, <1>10, <1>11, <1>12, <1>13
     DEF Moves, Operator, Submit, Accept, Fail

LEMMA NextMoves == [Next]_gui => [Moves]_gui
  BY DEF Next, Moves, Answer

THEOREM InvHolds == Spec => []Inv
  BY InvInit, InvStep, NextMoves, PTL DEF Spec

\* Every variable of the coordinator keeps its type.
THEOREM TypeCorrect == Spec => []TypeOK
<1>1. Inv => TypeOK
  BY DEF Inv
<1>2. QED
  BY <1>1, InvHolds, PTL

\* A pending auto-stop of the coordinator is that of the active run, whatever was
\* lost, declined or raised before.
THEOREM MirrorStopsItsRunHolds == Spec => []MirrorStopsItsRun
<1>1. Inv => MirrorStopsItsRun
  BY DEF Inv, Actives, MirrorStopsItsRun
<1>2. QED
  BY <1>1, InvHolds, PTL

\* The flag that makes a STOP collect a current CSV belongs to the active run.
THEOREM BaselineFlagHolds == Spec => []BaselineFlag
<1>1. Inv => BaselineFlag
  BY DEF Inv, Actives
<1>2. QED
  BY <1>1, InvHolds, PTL

-----------------------------------------------------------------------------
(* The active request, as long as nothing raises after an accepted request *)

\* Requests are for what they name: a START for the run of its id, a STOP for the
\* active run, and no run under way has had its results shown.
Named ==
  /\ dialogs # <<>> /\ dialogs[1].cmd \in StartCommands =>
       dialogs[1].id = dialogs[1].run /\ dialogs[1].run \notin reported
  /\ dialogs # <<>> /\ dialogs[1].cmd = "STOP_TEST" => dialogs[1].run = active
  /\ Starting => call.id = call.run /\ call.run \notin reported
  /\ Stopping => call.run = active
  /\ active # None => active \notin reported
  /\ \A r \in reported : asked[r] # None

ActiveInv == Inv /\ Named /\ ActiveHasRequest

LEMMA NamedByNotices ==
  ASSUME NEW ds, ds \in Seq(Dialogs), OnlyNotices(ds), ds # <<>>
  PROVE  ds[1].cmd \notin StartCommands \cup {"STOP_TEST"}
  BY Popped, Kinds DEF StartCommands

LEMMA ActiveInit == Init => ActiveInv
  BY InvInit, Kinds
    DEF Init, ActiveInv, Named, ActiveHasRequest, Starting, Stopping, StartCommands

LEMMA ActiveStep ==
  ASSUME ActiveInv, [Moves]_gui, "raise" \notin Mishaps
  PROVE  ActiveInv'
<1>0. Inv /\ Inv' /\ dialogs \in Seq(Dialogs) /\ dialogs' \in Seq(Dialogs)
  <2>1. Inv /\ Inv'
    BY InvStep DEF ActiveInv
  <2>2. TypeOK /\ TypeOK'
    BY <2>1 DEF Inv
  <2>3. dialogs \in Seq(Dialogs)
    BY <2>2, TypeByParts
  <2>4. dialogs' \in Seq(Dialogs)
    BY <2>2 DEF TypeOK, Dialogs, StartRequests, StopRequests
  <2>5. QED
    BY <2>1, <2>3, <2>4
<1>a. /\ active \in Runs \cup {None} /\ mirror \in Runs \cup {None} /\ reported \subseteq Runs
      /\ asked \in [Runs -> StartCommands \cup {None}] /\ None \notin Runs
      /\ None \notin StartCommands
  BY <1>0, TypeByParts, IdsAssumption DEF Inv
<1>b. /\ call = NoCall => ~Starting /\ ~Stopping
      /\ call' = NoCall => ~Starting' /\ ~Stopping'
  BY Kinds DEF Starting, Stopping, StartCommands
<1>c. dialogs' = <<>> \/ OnlyNotices(dialogs') =>
        (dialogs' # <<>> => dialogs'[1].cmd \notin StartCommands \cup {"STOP_TEST"})
  BY <1>0, NamedByNotices
<1> USE DEF ActiveInv
<1>1. CASE AskStart
  <2>1. PICK r \in Runs, cmd \in StartCommands :
          /\ TkFree /\ state = "IDLE" /\ asked[r] = None
          /\ dialogs' = <<Request(cmd, r, r)>>
          /\ asked' = [asked EXCEPT ![r] = cmd]
          /\ UNCHANGED <<state, active, isBaseline, mirror, call, reported>>
    BY <1>1 DEF AskStart, ButtonsFree
  <2>2. dialogs'[1] = Request(cmd, r, r)
    BY <2>1
  <2>3. dialogs'[1].cmd = cmd /\ dialogs'[1].id = r /\ dialogs'[1].run = r /\ r \notin reported
    BY <2>1, <2>2 DEF Request, Named
  <2>4. Named'
    BY <1>a, <1>b, <2>1, <2>3 DEF Named, TkFree, StartCommands
  <2>5. QED
    BY <1>0, <2>1, <2>4 DEF ActiveHasRequest
<1>2. CASE AskStop
  <2>1. /\ active # None /\ mirror' = None /\ call = NoCall
        /\ dialogs' = <<Request("STOP_TEST", None, active)>>
        /\ UNCHANGED <<state, active, call, asked, reported>>
    BY <1>2 DEF AskStop, ActiveHasRequest, ButtonsFree, TkFree
  <2>2. dialogs'[1] = Request("STOP_TEST", None, active)
    BY <2>1
  <2>3. dialogs'[1].cmd = "STOP_TEST" /\ dialogs'[1].run = active
    BY <2>2 DEF Request
  <2>4. Named'
    BY <1>b, <2>1, <2>3 DEF Named, StartCommands
  <2>5. QED
    BY <1>0, <2>1, <2>4 DEF ActiveHasRequest
<1>3. CASE Decline \/ StartUnrecorded
  <2>1. Tail(dialogs) = <<>> /\ call = NoCall
    BY <1>0, <1>3, Open DEF Decline, StartUnrecorded, Asking, StartCommands, TkFree
  <2>2. dialogs' = <<>> \/ OnlyNotices(dialogs')
    BY <1>3, <2>1, Single DEF Decline, StartUnrecorded
  <2>3. StartUnrecorded => state = "IDLE" /\ active = None
    BY <1>0, Open DEF StartUnrecorded, Asking, StartCommands, ActiveHasRequest
  <2>4. UNCHANGED <<state, active, mirror, call, asked, reported>>
    BY <1>3, <2>3 DEF Decline, StartUnrecorded
  <2>5. Named'
    BY <1>b, <1>c, <2>1, <2>2, <2>4 DEF Named
  <2>6. QED
    BY <1>0, <2>4, <2>5 DEF ActiveHasRequest
<1>4. CASE Dismiss
  <2>1. OnlyNotices(dialogs)
    <3>1. dialogs # <<>> /\ Head(dialogs) = dialogs[1] /\ dialogs[1].cmd = "NOTICE"
      BY <1>0, <1>4, Popped DEF Dismiss, Asking
    <3>2. QED
      BY <1>0, <3>1, Kinds DEF Inv, Confirmations, StartCommands
  <2>2. OnlyNotices(dialogs')
    BY <1>0, <1>4, <2>1, Popped DEF Dismiss, Asking
  <2>3. UNCHANGED <<state, active, mirror, call, asked, reported>> /\ call = NoCall
    BY <1>4 DEF Dismiss, Asking, TkFree
  <2>4. Named'
    BY <1>b, <1>c, <2>2, <2>3 DEF Named
  <2>5. QED
    BY <1>0, <2>3, <2>4 DEF ActiveHasRequest
<1>5. CASE SendStart
  <2>1. /\ dialogs' = <<>> /\ call' = dialogs[1] /\ call' \in StartRequests
        /\ dialogs # <<>> /\ state = "IDLE" /\ state' = "STARTING"
        /\ UNCHANGED <<active, mirror, asked, reported>>
    BY <1>0, <1>5, Open, Popped DEF SendStart, Asking, StartCommands
  <2>2. call'.cmd \in StartCommands
    BY <2>1, Kinds
  <2>3. Named'
    BY <2>1, <2>2 DEF Named, Starting, Stopping, StartCommands
  <2>4. QED
    BY <1>0, <2>1, <2>3 DEF ActiveHasRequest
<1>6. CASE SendStop
  <2>1. /\ Tail(dialogs) = <<>> /\ Head(dialogs).run = active /\ call = NoCall
        /\ state = "ACTIVE" /\ mirror = None /\ active # None
    BY <1>0, <1>6, Open, Popped
      DEF SendStop, Asking, StartCommands, Named, ActiveHasRequest, TkFree
  <2>2. \/ dialogs' = <<Notice>> /\ UNCHANGED <<call, state>>
        \/ /\ dialogs' = <<>> /\ state' = "STOPPING" /\ call'.cmd = "STOP_TEST"
           /\ call'.run = active
    <3>1. dialogs' = IF state' = "ACTIVE" THEN <<Notice>> ELSE <<>>
      BY <1>6, <2>1, Single DEF SendStop
    <3>2. \/ state' = "ACTIVE" /\ UNCHANGED call
          \/ \E id \in StopIds : /\ call' = Request("STOP_TEST", id, active)
                               /\ state' = "STOPPING"
      BY <1>6, <2>1 DEF SendStop, SubmitStop
    <3>3. QED
      BY <2>1, <3>1, <3>2 DEF Request
  <2>3. UNCHANGED <<active, mirror, asked, reported>>
    BY <1>6 DEF SendStop
  <2>4. Named'
    BY <1>b, <1>c, <2>1, <2>2, <2>3, Single DEF Named, Starting, Stopping, StartCommands
  <2>5. QED
    BY <1>0, <2>1, <2>2, <2>3, <2>4 DEF ActiveHasRequest
<1>7. CASE FireMirror
  <2>1. /\ state = "ACTIVE" /\ active # None /\ call = NoCall /\ mirror' = None
        /\ SubmitStop(active) /\ UNCHANGED <<active, asked, reported>>
        /\ dialogs' = IF state' = "ACTIVE" THEN <<Notice>> \o dialogs ELSE dialogs
    BY <1>7 DEF FireMirror, ActiveHasRequest, TkFree
  <2>2. OnlyNotices(dialogs)
    BY <1>0, <1>7, <2>1, Kinds DEF Inv, Confirmations, FireMirror
  <2>3. OnlyNotices(dialogs')
    BY <1>0, <2>1, <2>2, Pushed
  <2>4. \/ UNCHANGED <<call, state>>
        \/ state' = "STOPPING" /\ call'.cmd = "STOP_TEST" /\ call'.run = active
    BY <2>1 DEF SubmitStop, Request
  <2>5. Named'
    BY <1>b, <1>c, <2>1, <2>3, <2>4 DEF Named, Starting, Stopping, StartCommands
  <2>6. QED
    BY <1>0, <2>1, <2>4, <2>5 DEF ActiveHasRequest
<1>8. ASSUME Starting \/ Stopping, EndCall
      PROVE  /\ OnlyNotices(dialogs') /\ ~Starting' /\ ~Stopping' /\ UNCHANGED asked
             /\ call.run \in Runs
  <2>1. ~TkFree
    BY <1>8, <1>b DEF TkFree
  <2>2. call \in StartRequests \cup StopRequests(StopIds)
    BY <1>0, <2>1, TypeByParts DEF Inv, TkFree
  <2>3. QED
    BY <1>0, <1>8, <1>b, <2>1, <2>2, Busy, Pushed, Kinds DEF EndCall
<1>9. CASE StartAccepted
  <2>1. /\ active' = call.run /\ state' = "ACTIVE" /\ mirror' = call.run
        /\ UNCHANGED reported /\ Starting /\ EndCall
    BY <1>9 DEF StartAccepted
  <2>2. Named'
    BY <1>8, <1>c, <2>1 DEF Named
  <2>3. QED
    BY <1>0, <1>8, <1>a, <2>1, <2>2 DEF ActiveHasRequest
<1>10. CASE StartFailed
  <2>1. /\ active' = None /\ state' = "IDLE" /\ mirror' = mirror
        /\ UNCHANGED reported /\ Starting /\ EndCall
    BY <1>10 DEF StartFailed, StartError
  <2>2. state = "STARTING"
    BY <1>0, <2>1 DEF Inv, Calls
  <2>3. Named'
    BY <1>8, <1>c, <2>1 DEF Named
  <2>4. QED
    BY <1>0, <2>1, <2>2, <2>3 DEF ActiveHasRequest
<1>11. CASE StopAccepted
  <2>1. /\ active' = None /\ state' = "IDLE" /\ mirror' = mirror
        /\ reported' = reported \cup {call.run} /\ Stopping /\ EndCall
    BY <1>11 DEF StopAccepted
  <2>2. state = "STOPPING" /\ asked[call.run] # None
    BY <1>0, <2>1 DEF Inv, Calls, Actives, Named, ActiveHasRequest
  <2>3. Named'
    BY <1>8, <1>c, <2>1, <2>2 DEF Named
  <2>4. QED
    BY <1>0, <2>1, <2>2, <2>3 DEF ActiveHasRequest
<1>12. CASE StopFailed
  <2>1. /\ active' = active /\ state' = "ACTIVE" /\ mirror' = mirror
        /\ UNCHANGED reported /\ Stopping /\ EndCall
    BY <1>12 DEF StopFailed
  <2>2. state = "STOPPING"
    BY <1>0, <2>1 DEF Inv, Calls
  <2>3. Named'
    BY <1>8, <1>c, <2>1 DEF Named
  <2>4. QED
    BY <1>0, <2>1, <2>2, <2>3 DEF ActiveHasRequest
<1>13. CASE UNCHANGED gui
  BY <1>0, <1>13 DEF gui, Named, ActiveHasRequest, Starting, Stopping
<1>14. ~StartRaises /\ ~StopRaises
  BY DEF StartRaises, StopRaises
<1>15. QED
  BY <1>1, <1>2, <1>3, <1>4, <1>5, <1>6, <1>7, <1>9, <1>10, <1>11, <1>12, <1>13, <1>14
    DEF Moves, Operator, Submit, Accept, Fail

\* As long as nothing raises after an accepted request, a test that is shown as
\* active has a request that Stop can name, and a mirror is that request's.
THEOREM ActiveHasRequestHolds ==
  ASSUME "raise" \notin Mishaps
  PROVE  Spec => []ActiveHasRequest
<1>1. ActiveInv /\ [Next]_gui => ActiveInv'
  BY ActiveStep, NextMoves
<1>2. ActiveInv => ActiveHasRequest
  BY DEF ActiveInv
<1>3. QED
  BY <1>1, <1>2, ActiveInit, PTL DEF Spec
=============================================================================
