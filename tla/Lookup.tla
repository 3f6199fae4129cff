------------------------------- MODULE Lookup -------------------------------
(***************************************************************************)
(* The environment lookup chain (src/lookup).                              *)
(*                                                                         *)
(* A CommonLookup answers from its own variables united with those of its  *)
(* parent (its own win); a ComposableEnvLookup asks its lookups in order   *)
(* and keeps the last single answer.  The lookups of the OS environment    *)
(* and of a KEY=VALUE file are built in one step.  NewQuestionLookup reads *)
(* the questions of a catalog file and asks each on stdin, in Go map       *)
(* order, through a fresh bufio.Reader per question: the reader may buffer *)
(* more of stdin than the line it returns, and that buffer is dropped with *)
(* it.  A variable map is a function on the keys it defines; "k=v"         *)
(* answers are the records [key, val].                                     *)
(***************************************************************************)
EXTENDS Naturals, Sequences, SequencesExt, TLC

CONSTANTS
    Keys,          \* variable names
    OsEnv,         \* variables of the process environment (a function)
    EnvFile,       \* entries opts.ParseEnvFile returns: [key, eq, val]
    FileStatus,    \* the questions file: "absent", "unreadable", "malformed" or "ok"
    CatalogDoc,    \* its catalog sections, when "ok"
    Input,         \* the lines stdin holds (already trimmed; "" is a blank line)
    FinalNewline   \* whether the last line of Input ends with a newline

VARIABLES
    phase,     \* NewQuestionLookup: "read", "ask", "built" or "failed"
    pending,   \* questions the range loop has not reached
    answers,   \* the variables of the question lookup
    stdin      \* lines of stdin no reader has taken yet

vars == <<phase, pending, answers, stdin>>

NoVars == [k \in {} |-> ""]
Garbled == "garbled"      \* the tail of a line a dropped buffer cut
NoParent == [none |-> TRUE]   \* parent holds the Variables() of the parent lookup
NoCatalog == [none |-> TRUE]

-----------------------------------------------------------------------------
(* Lookups as values.                                                      *)

\* utils.MapInterfaceUnion(a, b): the keys of both, b winning.
MapInterfaceUnion(a, b) == b @@ a

\* CommonLookup.Variables, lookup.go 30-35: own variables over the parent's.
Variables(l) == IF l.parent = NoParent THEN l.own ELSE MapInterfaceUnion(l.parent, l.own)

\* CommonLookup.Lookup, lookup.go 22-28, and MapEnvLookup.Lookup (map_env.go
\* 13-18): one "key=value" when the merged variables define key.
Resolve(l, k) ==
    IF k \in DOMAIN Variables(l) THEN <<[key |-> k, val |-> Variables(l)[k]]>> ELSE <<>>

\* ComposableEnvLookup.Lookup, composable.go 17-26: the last lookup that
\* answers exactly one entry.
ComposableResolve(ls, k) ==
    FoldLeft(LAMBDA r, l : IF Len(Resolve(l, k)) = 1 THEN Resolve(l, k) ELSE r, <<>>, ls)

\* Mutant: the union taken the other way round, an earlier lookup winning.
ComposableVariablesFirstWins(ls) ==
    FoldLeft(LAMBDA v, l : MapInterfaceUnion(Variables(l), v), NoVars, ls)

\* ComposableEnvLookup.Variables, composable.go 28-34: the union of the
\* lookups' variables, a later lookup winning.
ComposableVariables(ls) ==
    FoldLeft(LAMBDA v, l : MapInterfaceUnion(v, Variables(l)), NoVars, ls)

\* NewOsEnvLookup, os.go 10-20.
OsLookup == [own |-> OsEnv, parent |-> NoParent]

\* NewEnvFileLookup, envfile.go 11-27: the entries with '=', a later one
\* overwriting an earlier one of the same key.
EnvFileVars ==
    LET add(m, e) == IF e.eq THEN (e.key :> e.val) @@ m ELSE m
    IN FoldLeft(add, NoVars, EnvFile)

EnvFileLookup(parent) == [own |-> EnvFileVars, parent |-> parent]

-----------------------------------------------------------------------------
(* The questions file.                                                     *)

\* config.CreateRawConfig, config/merge.go 25-51, as ParseCatalogConfig
\* reads it: the services of a version 2 file, or else the whole file read
\* as a service map with .catalog deleted; so only a version 2 file has a
\* .catalog service.
ServiceCatalog(doc) == IF doc.version = "2" THEN doc.service ELSE NoCatalog

\* ParseCatalogConfig, questions.go 61-94: catalog: wins over a top-level
\* .catalog:, which wins over the .catalog service of a version 2 file;
\* without any the file has no questions.
CatalogQuestions ==
    LET fromService == ServiceCatalog(CatalogDoc)
        raw == IF CatalogDoc.catalog # NoCatalog THEN CatalogDoc.catalog
               ELSE IF CatalogDoc.dotCatalog # NoCatalog THEN CatalogDoc.dotCatalog
               ELSE fromService
    IN IF raw = NoCatalog THEN <<>> ELSE raw.questions

\* ParseQuestions, questions.go 47-59: variable -> default, a later
\* question of a variable replacing an earlier one.
Questions ==
    LET qs == CatalogQuestions
    IN [k \in {qs[i].variable : i \in DOMAIN qs} |->
          qs[SelectLastInSeq(qs, LAMBDA q : q.variable = k)].default]

\* bufio.Reader.ReadString('\n') on a fresh reader, questions.go 102: the
\* first line, or an error at end of input (also for a last line without
\* newline); the reader has taken the line and any part of what follows.
ReadString(in) ==
    IF in = <<>> \/ (Len(in) = 1 /\ ~FinalNewline)
    THEN {[ok |-> FALSE, line |-> "", rest |-> <<>>]}
    ELSE LET after(n) == SubSeq(in, n + 2, Len(in))
         IN {[ok |-> TRUE, line |-> Head(in), rest |-> after(n)] : n \in 0..Len(in) - 1}
            \cup {[ok |-> TRUE, line |-> Head(in),
                   rest |-> [after(n) EXCEPT ![1] = Garbled]] : n \in 0..Len(in) - 2}

\* ask, questions.go 96-114: "" on a read error, else the trimmed line,
\* else the default.
Answer(k, r) ==
    IF ~r.ok THEN "" ELSE IF r.line = "" THEN Questions[k] ELSE r.line

Init ==
    /\ phase = "read"
    /\ pending = {}
    /\ answers = NoVars
    /\ stdin = Input

\* NewQuestionLookup, questions.go 17-33: a missing file gives an empty
\* lookup, another read or parse error is returned.
ReadFile ==
    /\ phase = "read"
    /\ \/ FileStatus = "absent" /\ phase' = "built" /\ UNCHANGED pending
       \/ FileStatus \in {"unreadable", "malformed"} /\ phase' = "failed" /\ UNCHANGED pending
       \/ FileStatus = "ok" /\ phase' = "ask" /\ pending' = DOMAIN Questions
    /\ UNCHANGED <<answers, stdin>>

\* One iteration of the loop of questions.go 34-39: a non-empty answer
\* becomes a variable.
Ask ==
    /\ phase = "ask"
    /\ \E k \in pending, r \in ReadString(stdin) :
         /\ pending' = pending \ {k}
         /\ stdin' = r.rest
         /\ answers' = IF Answer(k, r) # "" THEN (k :> Answer(k, r)) @@ answers ELSE answers
    /\ UNCHANGED phase

\* questions.go 41-44: the loop is over.
Built ==
    /\ phase = "ask"
    /\ pending = {}
    /\ phase' = "built"
    /\ UNCHANGED <<pending, answers, stdin>>

Done ==
    /\ phase \in {"built", "failed"}
    /\ UNCHANGED vars

Next == ReadFile \/ Ask \/ Built \/ Done

Spec == Init /\ [][Next]_vars /\ WF_vars(ReadFile \/ Ask \/ Built)

\* The chain of spec 4.1: the OS environment, then the KEY=VALUE file,
\* then the question lookup whose parent is the file.
Chain == <<OsLookup, EnvFileLookup(NoParent),
           [own |-> answers, parent |-> EnvFileVars]>>

-----------------------------------------------------------------------------
(* Properties                                                              *)

TypeOK ==
    /\ phase \in {"read", "ask", "built", "failed"}
    /\ pending \subseteq Keys
    /\ DOMAIN answers \subseteq Keys
    /\ stdin \in Seq(STRING)

\* Spec 4.1: a composable lookup's resolve (ComposableEnvLookup.Lookup,
\* which the environment of a service goes through) and its allVariables
\* (ComposableEnvLookup.Variables, which interpolation and templating read)
\* agree: a key resolves to "k=v" exactly when the variables map k to v.
\* The two loops of composable.go must give later lookups precedence alike.
ResolveAgreesWithVariables(ls, ks) ==
    \A k \in ks :
        ComposableResolve(ls, k) =
            IF k \in DOMAIN ComposableVariables(ls)
            THEN <<[key |-> k, val |-> ComposableVariables(ls)[k]]>>
            ELSE <<>>

\* Spec 4.1: the defaults of the questions file are the answers when no
\* input is available, and a line of input answers a question.  Once
\* NewQuestionLookup has returned, every question with a default resolves
\* through the chain to the line given for it or to its default.
QuestionsAnswered ==
    phase = "built" =>
        \A k \in DOMAIN Questions :
            Questions[k] # "" => Len(ComposableResolve(Chain, k)) = 1

=============================================================================
