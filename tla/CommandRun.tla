----------------------------- MODULE CommandRun -----------------------------
(* A shell runs one command of the agent while the BPF programs of the       *)
(* collector record what its processes do. The shell and the kernel are the  *)
(* environment; what is recorded, and what is lost, is telemetry.py's.       *)
(*                                                                           *)
(* A command is a sequence of clauses. A clause has the argument vectors its *)
(* words can expand to, says how it is joined to the clause before it, and   *)
(* whether the pipeline that starts with it is negated. A builtin runs in    *)
(* the shell and leaves no exec image.                                       *)
EXTENDS Naturals, Sequences, FiniteSetsExt

CONSTANTS
    Commands,     \* the commands that may be run, each with the bound of its runs
    Words         \* the argument vectors that processes execute

VARIABLES
    command,      \* the clauses of this call's command
    bound,        \* bounds on its processes, and on the images, disk reads, CPU
                  \* samples and lost events of a run; the words that descendants
                  \* execute, and those too long to be captured
    log,          \* everything the kernel did, recorded or not
    proc,         \* process -> what it is doing
    shell,        \* how far the shell has come
    stranger      \* whether another call of the container may still interfere

vars == <<command, bound, log, proc, shell, stranger>>

Entry == 1                       \* the shell that the launcher released
Stranger == 0                    \* a process of another call in the scope
Pids == 1..bound.pids
Clauses == DOMAIN command
NoImage == "none"                \* a process that has not executed anything
EntryImage == "entry"            \* sh -c <command>
Killed == 137

Event == [kind : {"fork", "exec", "failed", "exit", "perf"}, pid : {Stranger} \cup Pids,
          child : {Stranger} \cup Pids, word : Words \cup {NoImage, EntryImage}, read : Nat,
          status : {0, 1, 127, Killed}, clause : Nat, kept : BOOLEAN, cut : BOOLEAN]

TypeOK ==
    /\ [clauses |-> command, bound |-> bound] \in Commands
    /\ log \in Seq(Event)
    /\ proc \in [Pids -> [state : {"none", "up", "gone"}, word : Words \cup {NoImage, EntryImage},
                          clause : Nat, read : Nat]]
    /\ shell \in [at : Nat, run : Nat, status : {0, 1, 127, Killed}]
    /\ stranger \in BOOLEAN

(* The launcher's gate opens after the collector is armed, so the first      *)
(* event is the execution of the entry shell.                                *)
Init ==
    /\ \E c \in Commands : command = c.clauses /\ bound = c.bound
    /\ proc = [p \in Pids |->
                 [state |-> IF p = Entry THEN "up" ELSE "none", clause |-> 0, read |-> 0,
                  word |-> IF p = Entry THEN EntryImage ELSE NoImage]]
    /\ log = << [kind |-> "exec", pid |-> Entry, child |-> Stranger, word |-> EntryImage,
                 read |-> 0, status |-> 0, clause |-> 0, kept |-> TRUE, cut |-> FALSE] >>
    /\ shell = [at |-> 1, run |-> 0, status |-> 0]
    /\ stranger = TRUE

Faults == Cardinality({i \in DOMAIN log : ~log[i].kept})

(* An event is lost when the ring buffer is full; argument vectors that are  *)
(* too long are cut.                                                         *)
Record(p, e) ==
    \E kept \in BOOLEAN :
        /\ ~kept => Faults < bound.faults
        /\ log' = Append(log, [kind |-> e.kind, pid |-> p, child |-> e.child, word |-> e.word,
                               read |-> e.read,
                               status |-> e.status,
                               clause |-> IF p = Stranger THEN 0 ELSE proc[p].clause,
                               kept |-> kept, cut |-> e.word \in bound.long])

Happens(kind) ==
    [kind |-> kind, child |-> Stranger, word |-> NoImage, status |-> 0, read |-> 0]

Unused == {p \in Pids : proc[p].state = "none"}
NewPid == CHOOSE p \in Unused : \A q \in Unused : p <= q
Up(p) == proc[p].state = "up"
Ran(i) == \E p \in Pids : proc[p].clause = i

Fork(p, i) ==
    /\ Unused # {}
    /\ proc' = [proc EXCEPT ![NewPid].state = "up", ![NewPid].clause = i]
    /\ Record(p, [Happens("fork") EXCEPT !.child = NewPid])

(***************************************************************************)
(* The shell                                                                 *)
(***************************************************************************)
StartsPipeline(i) == command[i].join # "|"

PipelineOf(i) ==
    LET first == CHOOSE j \in 1..i : StartsPipeline(j) /\ \A k \in (j+1)..i : ~StartsPipeline(k)
    IN  {j \in Clauses : j >= first /\ \A k \in (first+1)..j : ~StartsPipeline(k)}

(* The process that the shell forked for a clause.                           *)
Root(i) ==
    IF proc[Entry].clause = i THEN {Entry}
    ELSE {log[n].child : n \in {m \in DOMAIN log : /\ log[m].kind = "fork"
                                                   /\ log[m].pid = Entry
                                                   /\ proc[log[m].child].clause = i}}

ExitOf(p) == {log[n].status : n \in {m \in DOMAIN log : log[m].kind = "exit" /\ log[m].pid = p}}

InShell == Up(Entry) /\ proc[Entry].clause = 0

Due(i) ==
    CASE command[i].join = "&&" -> shell.status = 0
      [] command[i].join = "||" -> shell.status # 0
      [] OTHER -> TRUE

(* A pipeline's processes are forked one after the other; a builtin of a     *)
(* pipeline runs in a forked subshell.                                       *)
StartClause ==
    LET i == shell.at
    IN  /\ InShell /\ i \in Clauses
        /\ IF StartsPipeline(i) THEN shell.run = 0 /\ Due(i) ELSE shell.run # 0
        /\ ~(command[i].builtin /\ PipelineOf(i) = {i})
        /\ Fork(Entry, i)
        /\ shell' = [shell EXCEPT !.at = i + 1, !.run = IF StartsPipeline(i) THEN i ELSE @]
        /\ UNCHANGED <<command, bound, stranger>>

RunBuiltin ==
    LET i == shell.at
    IN  /\ InShell /\ i \in Clauses
        /\ shell.run = 0 /\ Due(i) /\ command[i].builtin /\ PipelineOf(i) = {i}
        /\ \E s \in {0, 1} : shell' = [shell EXCEPT !.at = i + 1, !.status = s]
        /\ UNCHANGED <<command, bound, log, proc, stranger>>

SkipPipeline ==
    LET i == shell.at
    IN  /\ InShell /\ i \in Clauses
        /\ shell.run = 0 /\ ~Due(i)
        /\ shell' = [shell EXCEPT !.at = i + Cardinality(PipelineOf(i))]
        /\ UNCHANGED <<command, bound, log, proc, stranger>>

(* The status of a pipeline is that of its last clause, or its negation.     *)
Reap ==
    LET members == PipelineOf(shell.run)
        last == CHOOSE i \in members : \A j \in members : j <= i
        roots == UNION {Root(i) : i \in members}
        status == CHOOSE s \in UNION {ExitOf(p) : p \in Root(last)} : TRUE
    IN  /\ InShell /\ shell.run # 0 /\ shell.at = last + 1
        /\ \A p \in roots : ~Up(p)
        /\ shell' = [shell EXCEPT !.run = 0,
                                  !.status = IF command[shell.run].neg
                                             THEN IF status = 0 THEN 1 ELSE 0
                                             ELSE status]
        /\ UNCHANGED <<command, bound, log, proc, stranger>>

(* The shell may execute its last command without a fork.                    *)
ShellExecs ==
    LET i == shell.at
    IN  /\ InShell /\ i = Len(command)
        /\ shell.run = 0 /\ Due(i) /\ PipelineOf(i) = {i}
        /\ ~command[i].builtin /\ ~command[i].neg
        /\ shell' = [shell EXCEPT !.at = i + 1]
        /\ \E w \in command[i].argv :
              /\ proc' = [proc EXCEPT ![Entry].word = w, ![Entry].clause = i]
              /\ Record(Entry, [Happens("exec") EXCEPT !.word = w])
        /\ UNCHANGED <<command, bound, stranger>>

ShellExits ==
    /\ InShell /\ shell.at = Len(command) + 1 /\ shell.run = 0
    /\ proc' = [proc EXCEPT ![Entry].state = "gone"]
    /\ Record(Entry, [Happens("exit") EXCEPT !.status = shell.status])
    /\ UNCHANGED <<command, bound, shell, stranger>>

(***************************************************************************)
(* The other processes                                                       *)
(***************************************************************************)
IsRoot(p) == p \in Root(proc[p].clause)
Images(p) == Cardinality({n \in DOMAIN log : log[n].kind = "exec" /\ log[n].pid = p})
IsSubshell(p) == proc[p].word = NoImage /\ IsRoot(p) /\ command[proc[p].clause].builtin

Others == {p \in Pids : Up(p) /\ proc[p].clause # 0}

(* What a process may execute: first its clause's words, then anything.      *)
Executes(p) ==
    IF IsRoot(p) /\ proc[p].word = NoImage THEN command[proc[p].clause].argv ELSE bound.words

(* The boundaries of an image carry the process's own I/O counter. What it   *)
(* read since the boundary before it is chosen here.                         *)
Reads(p) == proc[p].read .. Min({proc[p].read + 1, bound.reads})

Exec(p) ==
    /\ ~IsSubshell(p) /\ Images(p) < bound.images
    /\ \E w \in Executes(p), r \in Reads(p) :
          /\ proc' = [proc EXCEPT ![p].word = w, ![p].read = r]
          /\ Record(p, [Happens("exec") EXCEPT !.word = w, !.read = r])
    /\ UNCHANGED <<command, bound, shell, stranger>>

ExecFails(p) ==
    /\ ~IsSubshell(p) /\ proc[p].word = NoImage
    /\ ~\E n \in DOMAIN log : log[n].kind = "failed" /\ log[n].pid = p
    /\ \E w \in Executes(p) : Record(p, [Happens("failed") EXCEPT !.word = w])
    /\ UNCHANGED <<command, bound, proc, shell, stranger>>

ForkChild(p) ==
    /\ IsRoot(p) => proc[p].word # NoImage
    /\ Fork(p, proc[p].clause)
    /\ UNCHANGED <<command, bound, shell, stranger>>

Sample(p) ==
    /\ Cardinality({n \in DOMAIN log : log[n].kind = "perf"}) < bound.samples
    /\ Record(p, [Happens("perf") EXCEPT !.word = proc[p].word])
    /\ UNCHANGED <<command, bound, proc, shell, stranger>>

(* A process that executed nothing ends with 127 unless it is a subshell.    *)
(* The status of a process that the shell does not wait for is not varied.   *)
Exit(p) ==
    /\ \E r \in Reads(p), s \in
            IF ~IsRoot(p) THEN {0}
            ELSE IF proc[p].word # NoImage THEN {0, 1, Killed}
            ELSE IF IsSubshell(p) THEN {0, 1} ELSE {127} :
          /\ proc' = [proc EXCEPT ![p].state = "gone", ![p].read = r]
          /\ Record(p, [Happens("exit") EXCEPT !.status = s, !.word = proc[p].word, !.read = r])
    /\ UNCHANGED <<command, bound, shell, stranger>>

(* Another call of the container executes a word; nothing depends on when.   *)
Interfere ==
    /\ stranger /\ stranger' = FALSE
    /\ Len(log) = 1
    /\ \E w \in bound.words : Record(Stranger, [Happens("exec") EXCEPT !.word = w])
    /\ UNCHANGED <<command, bound, proc, shell>>

Process(p) ==
    \/ Exec(p) \/ ExecFails(p) \/ ForkChild(p) \/ Sample(p) \/ Exit(p)

Done == ~Up(Entry)

Next ==
    /\ ~Done
    /\ \/ StartClause \/ RunBuiltin \/ SkipPipeline \/ Reap \/ ShellExecs \/ ShellExits
       \/ Interfere
       \/ \E p \in Others : Process(p)

Spec == Init /\ [][Next]_vars
=============================================================================
