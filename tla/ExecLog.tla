------------------------------ MODULE ExecLog ------------------------------
(***************************************************************************)
(* exec of one machine and the log it keeps: src/src/commands/exec.rs,     *)
(* execlog/logger.rs and execlog/reader.rs. The runtime's exec is what it  *)
(* returns: an answer, or an error (a guest agent that closes the          *)
(* connection without an answer, a machine that is gone).                  *)
(***************************************************************************)
EXTENDS Naturals, SequencesExt, Invocations

CONSTANT MaxExecs   \* bound on the commands executed

ASSUME MaxExecsAssumption == MaxExecs \in Nat

Entry == 1 .. MaxExecs
Newline == [newline |-> TRUE]
Text(e, whole) == [newline |-> FALSE, of |-> e, whole |-> whole]

VARIABLES
  log,       \* {machine}.jsonl: what each write appended to it
  exec,      \* each invocation: where it stands, and its entry
  execs,     \* how many commands were executed
  shown,     \* history: the entries whose command was reported a success
  cut,       \* history: the entries left without their newline, until one comes
  mixed      \* history: the entries written while another had no newline yet

execVars == <<log, exec, execs, shown, cut, mixed>>

ExecLogTypeOK ==
  /\ log \in Seq({Newline} \cup {Text(e, w) : e \in Entry, w \in BOOLEAN})
  /\ exec \in [Invocation -> [at : {"idle", "running", "append", "newline"},
                              entry : 0 .. MaxExecs]]
  /\ execs \in 0 .. MaxExecs
  /\ shown \subseteq Entry
  /\ cut \subseteq Entry /\ mixed \subseteq Entry

ExecLogInit ==
  /\ log = <<>>
  /\ exec = [p \in Invocation |-> [at |-> "idle", entry |-> 0]]
  /\ execs = 0
  /\ shown = {} /\ cut = {} /\ mixed = {}

ExecGoes(p, a, b) ==
  /\ exec[p].at = a
  /\ exec' = [exec EXCEPT ![p] = IF b = "idle" THEN [at |-> "idle", entry |-> 0]
                                 ELSE [@ EXCEPT !.at = b]]

RunCommand(p) ==
  /\ exec[p].at = "idle" /\ execs < MaxExecs
  /\ execs' = execs + 1
  /\ exec' = [exec EXCEPT ![p] = [at |-> "running", entry |-> execs']]
  /\ UNCHANGED <<log, shown, cut, mixed>>

(* A command that ran into its timeout is an answer like any other.        *)
Answered(p) ==
  /\ ExecGoes(p, "running", "append")
  /\ UNCHANGED <<log, execs, shown, cut, mixed>>

NotAnswered(p) ==
  /\ ExecGoes(p, "running", "idle")
  /\ UNCHANGED <<log, execs, shown, cut, mixed>>

(* writeln! on a File is two writes, each at the end of the file as it is. *)
Mixing(e) ==
  LET open == cut \cup {exec[q].entry : q \in {q \in Invocation : exec[q].at = "newline"}}
  IN mixed' = IF open = {} THEN mixed ELSE mixed \cup open \cup {e}

AppendText(p) ==
  /\ ExecGoes(p, "append", "newline")
  /\ log' = Append(log, Text(exec[p].entry, TRUE))
  /\ Mixing(exec[p].entry)
  /\ UNCHANGED <<execs, shown, cut>>

(* Mutant: the entry is written without its newline.                       *)
AppendNothing(p) ==
  /\ ExecGoes(p, "newline", "idle")
  /\ shown' = shown \cup {exec[p].entry}
  /\ UNCHANGED <<log, execs, cut, mixed>>

AppendNewline(p) ==
  /\ ExecGoes(p, "newline", "idle")
  /\ log' = Append(log, Newline)
  /\ shown' = shown \cup {exec[p].entry}
  /\ cut' = {}
  /\ UNCHANGED <<execs, mixed>>

(* The disk is full: a part is written, and exec reports an error although *)
(* the command was executed.                                               *)
AppendFails(p) ==
  /\ \/ /\ ExecGoes(p, "append", "idle")
        /\ log' = Append(log, Text(exec[p].entry, FALSE))
        /\ Mixing(exec[p].entry)
     \/ /\ ExecGoes(p, "newline", "idle")
        /\ UNCHANGED <<log, mixed>>
  /\ cut' = cut \cup {exec[p].entry}
  /\ UNCHANGED <<execs, shown>>

ExecKilled(p) ==
  /\ exec[p].at # "idle" /\ ExecGoes(p, exec[p].at, "idle")
  /\ cut' = IF exec[p].at = "newline" THEN cut \cup {exec[p].entry} ELSE cut
  /\ UNCHANGED <<log, execs, shown, mixed>>

ExecLogNext ==
  \E p \in Invocation :
    \/ RunCommand(p) \/ Answered(p) \/ NotAnswered(p)
    \/ AppendText(p) \/ AppendNewline(p) \/ AppendFails(p) \/ ExecKilled(p)

ExecLogSpec == ExecLogInit /\ [][ExecLogNext]_execVars
-----------------------------------------------------------------------------
(* read_last_from_dir: every line that parses is an entry, and a line does *)
(* when it is one complete text; the last needs no newline.                *)
Entries ==
  LET lineOf(i) == Cardinality({j \in 1 .. i : log[j] = Newline})
      alone(i) == \A j \in DOMAIN log : lineOf(j) = lineOf(i) /\ log[j] # Newline => j = i
  IN {log[i].of : i \in {j \in DOMAIN log : log[j] # Newline /\ log[j].whole /\ alone(j)}}

(* What exec reported a success is in the log, and logs shows it, unless   *)
(* another entry came between its text and its newline, or it was written  *)
(* onto a line that a kill or a full disk had left open (logger.rs:43).    *)
ShownIsLogged == shown \subseteq Entries \cup mixed
=============================================================================
