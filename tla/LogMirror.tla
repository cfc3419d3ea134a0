------------------------------ MODULE LogMirror ------------------------------
(* One event log on its way to the operator: a workload on the DUT appends
   records to a JSONL file, pull_logs.sh mirrors the file to the arbiter, and
   the GUI's SeeLogTailer shows the SEE records the mirror gains.

   A file is a sequence of units: the text of record r is the unit r, its
   newline is Eol.  A line is readable when it is one whole record; the other
   lines are left out by the tailer (json.loads fails).  Every record here is
   one that classify_see keeps. *)
EXTENDS Integers, Sequences, FiniteSetsExt

CONSTANTS
  MaxRecords,   \* bound: records the DUT writes
  MaxCrashes,   \* bound: crashes of the DUT
  MaxLost,      \* bound: units the kernel has not written back at a crash
  MaxShown,     \* bound: copies of a record that are told apart
  Backends      \* those of pull_logs.sh: "rsync", "scp"

ASSUME MirrorAssumption ==
  /\ MaxRecords \in Nat /\ MaxCrashes \in Nat /\ MaxLost \in Nat
  /\ MaxShown \in Nat \ {0}
  /\ Backends \subseteq {"rsync", "scp"}

VARIABLES
  file, writing,      \* the log on the DUT; a line of it is half written
  written, crashes,
  backend, mirrorFile,   \* pull_logs.sh: HAVE_RSYNC; the arbiter's copy
  selected,           \* set_active_dut: this DUT's root is the tailer's
  primed, offset,     \* SeeLogTailer: _primed, _offsets
  shown,              \* copies of each record in the panel and in see_events
  \* history
  primedAt,           \* the end of the mirror when the tailer was primed
  cut                 \* a crash took back units that were already mirrored

dutVars == <<file, writing, written, crashes>>
tailVars == <<selected, primed, offset, shown, primedAt>>
mirrorVars == <<dutVars, backend, mirrorFile, tailVars, cut>>

Records == 1..MaxRecords
Eol == 0
Units == Records \cup {Eol}

MirrorTypeOK ==
  /\ file \in Seq(Units) /\ mirrorFile \in Seq(Units)
  /\ writing \in BOOLEAN /\ written \in 0..MaxRecords /\ crashes \in 0..MaxCrashes
  /\ backend \in Backends
  /\ selected \in BOOLEAN /\ primed \in BOOLEAN /\ cut \in BOOLEAN
  /\ offset \in Nat /\ primedAt \in Nat
  /\ shown \in [Records -> 0..MaxShown]

MirrorInit ==
  /\ file = <<>> /\ writing = FALSE /\ written = 0 /\ crashes = 0
  /\ backend \in Backends /\ mirrorFile = <<>>
  /\ selected = TRUE /\ primed = FALSE /\ offset = 0
  /\ shown = [r \in Records |-> 0]
  /\ primedAt = 0 /\ cut = FALSE

----------------------------------------------------------------------------
(* The DUT.  event_log.emit writes and flushes a line, and does not sync it;
   the kernel may show half of it, and lose what it has not synced. *)

WriteText ==
  /\ ~writing /\ written < MaxRecords
  /\ written' = written + 1
  /\ file' = Append(file, written + 1) /\ writing' = TRUE
  /\ UNCHANGED <<crashes, backend, mirrorFile, tailVars, cut>>

WriteEol ==
  /\ writing
  /\ file' = Append(file, Eol) /\ writing' = FALSE
  /\ UNCHANGED <<written, crashes, backend, mirrorFile, tailVars, cut>>

\* The workload comes back and appends; a torn line stays where it is.
CrashDut ==
  /\ crashes < MaxCrashes /\ crashes' = crashes + 1
  /\ \E k \in Max({0, Len(file) - MaxLost})..Len(file) :
       /\ file' = SubSeq(file, 1, k)
       /\ cut' = (cut \/ k < Len(mirrorFile) \/ k < offset)
  /\ writing' = FALSE
  /\ UNCHANGED <<written, backend, mirrorFile, tailVars>>

----------------------------------------------------------------------------
(* pull_logs.sh.  A pull may end early: the DUT is down, or the time is up. *)

\* rsync --append-verify leaves a mirror that is as long as the file alone; it
\* appends in place, and then sends the file again if the whole differs.
PullWhole ==
  /\ backend = "rsync" /\ Len(mirrorFile) < Len(file)
  /\ mirrorFile' = file
  /\ UNCHANGED <<dutVars, backend, tailVars, cut>>

PullPart ==
  /\ backend = "rsync"
  /\ \E k \in (Len(mirrorFile) + 1)..Len(file) :
       mirrorFile' = mirrorFile \o SubSeq(file, Len(mirrorFile) + 1, k)
  /\ UNCHANGED <<dutVars, backend, tailVars, cut>>

\* scp begins the copy anew, over the old one.
CopyFile ==
  /\ backend = "scp"
  /\ \E k \in 0..Len(file) : mirrorFile' = SubSeq(file, 1, k)
  /\ UNCHANGED <<dutVars, backend, tailVars, cut>>

----------------------------------------------------------------------------
(* The GUI: set_active_dut, and the tailer that _poll_sees calls. *)

\* Another DUT, or this one again: a new tailer on the root of the selection.
SetActiveDut ==
  /\ selected' = ~selected
  /\ primed' = FALSE /\ offset' = 0 /\ primedAt' = 0
  /\ UNCHANGED <<dutVars, backend, mirrorFile, shown, cut>>

\* MUTANT of Prime: what is there is taken for new.
PrimeAtStart ==
  /\ selected /\ ~primed
  /\ primed' = TRUE /\ offset' = 0 /\ primedAt' = 0
  /\ UNCHANGED <<dutVars, backend, mirrorFile, selected, shown, cut>>

\* _prime: what is there is history.
Prime ==
  /\ selected /\ ~primed
  /\ primed' = TRUE /\ offset' = Len(mirrorFile) /\ primedAt' = Len(mirrorFile)
  /\ UNCHANGED <<dutVars, backend, mirrorFile, selected, shown, cut>>

\* Record r is a line of its own in s, after the unit at position from.
LineAt(s, i, r) ==
  /\ i \in DOMAIN s /\ i + 1 \in DOMAIN s
  /\ s[i] = r /\ s[i + 1] = Eol

StartsLine(s, i, from) == i = from + 1 \/ s[i - 1] = Eol

\* The lines _read_new parses: those between from and the last newline.
Parsed(s, from) ==
  {r \in Records : \E i \in (from + 1)..Len(s) :
     LineAt(s, i, r) /\ StartsLine(s, i, from)}

LastEol(s, from) == Max({from} \cup {i \in (from + 1)..Len(s) : s[i] = Eol})

\* A shorter file was rotated or truncated: it is read again from the top.
ReadFrom == IF Len(mirrorFile) < offset THEN 0 ELSE offset

\* MUTANT of Consumed: a line that is not yet whole is read past.
ConsumedAll == Len(mirrorFile)

Consumed == LastEol(mirrorFile, ReadFrom)

\* MUTANT of ReadNew: nothing is read while the last line is not whole.
ReadWholeFile ==
  /\ selected /\ primed /\ Len(mirrorFile) # ReadFrom
  /\ mirrorFile # <<>> /\ mirrorFile[Len(mirrorFile)] = Eol
  /\ offset' = Consumed
  /\ shown' = [r \in Records |->
                 IF r \in Parsed(mirrorFile, ReadFrom) /\ shown[r] < MaxShown
                 THEN shown[r] + 1 ELSE shown[r]]
  /\ UNCHANGED <<dutVars, backend, mirrorFile, selected, primed, primedAt, cut>>

\* An unchanged file returns before the offset is written.
ReadNew ==
  /\ selected /\ primed /\ Len(mirrorFile) # ReadFrom
  /\ offset' = Consumed
  /\ shown' = [r \in Records |->
                 IF r \in Parsed(mirrorFile, ReadFrom) /\ shown[r] < MaxShown
                 THEN shown[r] + 1 ELSE shown[r]]
  /\ UNCHANGED <<dutVars, backend, mirrorFile, selected, primed, primedAt, cut>>

Poll == Prime \/ ReadNew

MirrorNext ==
  \/ WriteText \/ WriteEol \/ CrashDut
  \/ PullWhole \/ PullPart \/ CopyFile
  \/ SetActiveDut \/ Poll

MirrorSpec == MirrorInit /\ [][MirrorNext]_mirrorVars

\* pull_thread goes on pulling whatever fails, _poll_sees reschedules itself.
MirrorFairness == WF_mirrorVars(PullWhole) /\ WF_mirrorVars(Poll)

FairMirrorSpec == MirrorSpec /\ MirrorFairness

----------------------------------------------------------------------------
(* Properties. *)

\* With rsync no record reaches the panel or its see_events file twice, over
\* torn lines, crashes, and DUTs selected and selected again (SeeLogTailer:
\* nothing is re-emitted).  With scp it can: see Truncation in the README.
ShownOnce == backend = "rsync" => \A r \in Records : shown[r] <= 1

\* Whatever the tailer has read past it has shown: every record that the DUT's
\* log holds as a line of its own, from where the tailer was primed up to its
\* offset (_read_new: a mid-append record is never split).
NothingSkipped ==
  ~cut /\ primed =>
    \A r \in Records : \A i \in (primedAt + 1)..(offset - 1) :
      LineAt(file, i, r) /\ StartsLine(file, i, 0) => shown[r] > 0

\* A record logged after the tailer was primed is shown in the end, unless the
\* operator turns to another DUT, or a crash takes the record from the log or
\* takes back what was mirrored (_poll_sees reschedules itself, pull_thread
\* goes on pulling).
Logged(r) ==
  \E i \in DOMAIN file :
    i > primedAt /\ LineAt(file, i, r) /\ StartsLine(file, i, 0)

EventuallyShown ==
  \A r \in Records :
    (backend = "rsync" /\ primed /\ Logged(r))
      ~> (shown[r] > 0 \/ ~selected \/ cut \/ ~Logged(r))
=============================================================================
