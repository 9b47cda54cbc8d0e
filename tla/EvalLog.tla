---- MODULE EvalLog ----
(* The eval log: the risk service appends a line per incident                   *)
(* (_log_incident_for_eval in risk/engine.py), the gateway reads the whole file *)
(* and writes it anew for a verdict (gateway/main.py). Two processes, one file  *)
(* and no lock; the gateway's handlers have no await and exclude each other.    *)
EXTENDS Integers, Sequences

CONSTANTS
  Verdicts,
  LogLimit,      \* limit of the list
  MaxLogged,     \* bound: incidents logged
  MaxVerdicts    \* bound: verdicts given

ASSUME EvalLogAssumption == {MaxLogged, MaxVerdicts, LogLimit} \subseteq Nat

VARIABLES
  logFile,      \* lines of the file; a torn line is not JSON
  listed,       \* ids in the list an operator has before him
  copy,         \* the gateway: <<>>, or the lines it read and the verdict to enter
  endsLine,     \* the last line of the file, if any, has its newline
  writing,      \* the file is open for writing, and empty but for what was appended since
  logged,       \* history: number of incidents logged; they are numbered
  given,        \* history: verdict given last, per incident
  verdictsGiven,
  exposed       \* history: incidents whose line was or may have been lost

logVars == <<logFile, endsLine, listed, copy, writing, logged, given, verdictsGiven, exposed>>

Line(i, v) == [id |-> i, verdict |-> v]
Torn == Line(0, "torn")
None == "none"

EvalLogInit ==
  /\ logFile = <<>> /\ endsLine = TRUE /\ listed = {} /\ copy = <<>> /\ writing = FALSE
  /\ logged = 0 /\ given = <<>> /\ verdictsGiven = 0 /\ exposed = {}

(* The file is opened for appending and one line written; after a line without  *)
(* its end, to that line.                                                       *)
LogIncident ==
  /\ logged < MaxLogged
  /\ logged' = logged + 1
  /\ logFile' = IF endsLine THEN Append(logFile, Line(logged + 1, None))
                ELSE [logFile EXCEPT ![Len(logFile)] = Torn]
  /\ endsLine' = TRUE
  /\ given' = Append(given, None)
  /\ exposed' = IF copy # <<>> \/ ~endsLine THEN exposed \cup {logged + 1} ELSE exposed
  /\ UNCHANGED <<listed, copy, writing, verdictsGiven>>

Readable(lines) == {k \in DOMAIN lines : lines[k] # Torn}
LineIds(lines) == {lines[k].id : k \in Readable(lines)}
NewestLines(lines) == IF Len(lines) > LogLimit THEN SubSeq(lines, Len(lines) - LogLimit + 1, Len(lines)) ELSE lines

(* eval_incidents *)
ListLog ==
  /\ copy = <<>>
  /\ listed' = LineIds(NewestLines(logFile))
  /\ UNCHANGED <<logFile, endsLine, copy, writing, logged, given, verdictsGiven, exposed>>

(* eval_update_incident; an incident that is no longer in the file is not found, *)
(* and nothing happens.                                                         *)
BeginVerdict(i, v) ==
  /\ copy = <<>> /\ verdictsGiven < MaxVerdicts
  /\ i \in listed /\ i \in LineIds(logFile)
  /\ copy' = <<[lines |-> logFile, id |-> i, verdict |-> v]>>
  /\ UNCHANGED <<listed, logFile, endsLine, writing, logged, given, verdictsGiven, exposed>>

OpenForWriting ==
  /\ copy # <<>> /\ ~writing
  /\ writing' = TRUE /\ logFile' = <<>> /\ endsLine' = TRUE
  /\ UNCHANGED <<listed, copy, logged, given, verdictsGiven, exposed>>

\* Mutant: what the list shows is written back.
EnteredShown(c) ==
  LET recent == NewestLines(c.lines)
  IN [k \in DOMAIN recent |-> IF recent[k].id = c.id THEN Line(c.id, c.verdict) ELSE recent[k]]
(* Lines that are no JSON are kept as they are. *)
Entered(c) ==
  [k \in DOMAIN c.lines |-> IF c.lines[k].id = c.id THEN Line(c.id, c.verdict) ELSE c.lines[k]]

(* The text goes to the start of the file, over what was appended meanwhile: of *)
(* that, later lines may remain behind it, and the end of a line before them.   *)
Remains ==
  LET last(k) == SubSeq(logFile, k, Len(logFile))
  IN {<<>>} \cup {last(k) : k \in 2..Len(logFile)} \cup {<<Torn>> \o last(k) : k \in 2..Len(logFile) + 1}

EndVerdict ==
  /\ writing
  /\ \E rest \in Remains : logFile' = Entered(copy[1]) \o rest
  /\ endsLine' = TRUE
  /\ given' = [given EXCEPT ![copy[1].id] = copy[1].verdict]
  /\ copy' = <<>> /\ writing' = FALSE
  /\ verdictsGiven' = verdictsGiven + 1
  /\ UNCHANGED <<listed, logged, exposed>>

(* The gateway stops, at any point, and is started again. What it had written   *)
(* of the text may end after a line or inside one, or just before its newline;  *)
(* of what was appended meanwhile, something may remain behind it.              *)
CutShort(lines) ==
  \/ /\ endsLine' = TRUE
     /\ \E k \in 0..Len(lines), rest \in Remains \cup {logFile} :
          logFile' = SubSeq(lines, 1, k) \o rest
  \/ /\ endsLine' = FALSE
     /\ \E k \in 1..Len(lines) :
          logFile' \in {SubSeq(lines, 1, k), SubSeq(lines, 1, k - 1) \o <<Torn>>}

RestartWhileWriting ==
  /\ copy # <<>>
  /\ copy' = <<>> /\ writing' = FALSE
  /\ IF writing THEN CutShort(Entered(copy[1])) /\ exposed' = exposed \cup LineIds(copy[1].lines)
     ELSE UNCHANGED <<logFile, endsLine, exposed>>
  /\ UNCHANGED <<listed, logged, given, verdictsGiven>>

EvalLogNext ==
  \/ LogIncident \/ ListLog
  \/ \E i \in 1..MaxLogged, v \in Verdicts : BeginVerdict(i, v)
  \/ OpenForWriting \/ EndVerdict \/ RestartWhileWriting
EvalLogSpec == EvalLogInit /\ [][EvalLogNext]_logVars

(* Whenever the file is not being written, it has one line of each incident     *)
(* logged, in order and with the verdict given last: but those appended while a *)
(* verdict was entered, those of a file the gateway stopped writing, and the    *)
(* first appended to a last line it left without its end, may be missing        *)
(* (gateway/main.py:979-995).                                                   *)
LoggedIsKept ==
  ~writing =>
    /\ \A j, k \in Readable(logFile) : j < k => logFile[j].id < logFile[k].id
    /\ \A i \in 1..logged \ exposed : \E k \in DOMAIN logFile : logFile[k] = Line(i, given[i])
====
