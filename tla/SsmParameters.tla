--------------------------- MODULE SsmParameters ---------------------------
(***************************************************************************)
(* The parameters of a deployment: setssmparameter.sh puts the entries of a*)
(* file into the Parameter Store one by one, and start.sh, when a container*)
(* starts, lists the names and gets the values one by one.                 *)
(*                                                                         *)
(* Both scripts run under set -e.  The value of a parameter is the number  *)
(* of the run that put it, 0 for those that were there before.             *)
(***************************************************************************)
EXTENDS Naturals, Sequences, FiniteSets

CONSTANTS
    Keys,        \* parameters
    None,        \* no parameter, no value, no key on the line
    Files,       \* ssmvalues.json, as the sequences of lines jq makes of it
    Required,    \* keys without which a constructor throws at startup
    Containers,  \* starts of a container
    MaxRuns      \* bound on runs of setssmparameter.sh

ValidTypes == {"String", "SecureString"}
Line == [key : Keys \cup {None}, type : ValidTypes \cup {"other"}]

ASSUME KeysAssumption == None \notin Keys /\ None \notin Nat /\ Required \subseteq Keys
ASSUME FilesAssumption == Files \subseteq Seq(Line)
ASSUME RunsAssumption == MaxRuns \in Nat

VARIABLES
    store,     \* the Parameter Store
    runs,      \* runs of setssmparameter.sh so far
    script,    \* where the last one stands: at a line, at its put, or ended
    file, line,
    success, failed,
    tried,     \* history: the lines the run tried to put
    refusals,  \* history: how many of them were refused
    start,     \* where each start.sh stands
    todo,      \* names it has still to get
    env,       \* /app/.env
    listed,    \* history: names it listed
    missed,    \* history: names it could not get
    seen,      \* history: states of the store since it listed them
    writers    \* history: runs that put something since

publishVars == <<runs, script, file, line, success, failed, tried, refusals>>
startVars == <<start, todo, env, listed, missed, seen, writers>>
vars == <<store, publishVars, startVars>>

Value == 0..MaxRuns \cup {None}
Store == [Keys -> Value]
Fetching == {c \in Containers : start[c] = "get"}

TypeOK ==
    /\ store \in Store
    /\ runs \in 0..MaxRuns
    /\ script \in {"ended", "line", "put"}
    /\ file \in Files \cup {<<>>}
    /\ line \in 1..(Len(file) + 1)
    /\ success \in Nat /\ failed \in Nat /\ refusals \in Nat
    /\ success + refusals = Len(tried)
    /\ tried \in Seq(Line)
    /\ start \in [Containers -> {"created", "get", "app", "exited"}]
    /\ todo \in [Containers -> SUBSET Keys]
    /\ env \in [Containers -> Store]
    /\ listed \in [Containers -> SUBSET Keys]
    /\ missed \in [Containers -> SUBSET Keys]
    /\ seen \in [Containers -> SUBSET Store]
    /\ writers \in [Containers -> SUBSET (1..MaxRuns)]

Init ==
    /\ store \in [Keys -> {0, None}]
    /\ runs = 0 /\ script = "ended" /\ file = <<>> /\ line = 1
    /\ success = 0 /\ failed = 0 /\ tried = <<>> /\ refusals = 0
    /\ start = [c \in Containers |-> "created"]
    /\ todo = [c \in Containers |-> {}]
    /\ env = [c \in Containers |-> [k \in Keys |-> None]]
    /\ listed = [c \in Containers |-> {}]
    /\ missed = [c \in Containers |-> {}]
    /\ seen = [c \in Containers |-> {}]
    /\ writers = [c \in Containers |-> {}]

-----------------------------------------------------------------------------
(* setssmparameter.sh                                                      *)

\* Mutant: ((counter++)) || true, or counter=$((counter + 1)).
SurvivesAlways(counter) == TRUE

\* ((counter++)) has status 1 when the counter was 0, and set -e ends the script.
Survives(counter) == counter > 0

Valid(l) == l.type \in ValidTypes

Run ==
    /\ script = "ended" /\ runs < MaxRuns
    /\ runs' = runs + 1
    /\ file' \in Files
    /\ script' = "line" /\ line' = 1
    /\ success' = 0 /\ failed' = 0 /\ tried' = <<>> /\ refusals' = 0
    /\ UNCHANGED <<store, startVars>>

\* A blank key.
SkipBlank ==
    /\ script = "line" /\ line <= Len(file)
    /\ file[line].key = None
    /\ line' = line + 1
    /\ UNCHANGED <<store, runs, script, file, success, failed, tried, refusals, startVars>>

\* Mutant: if the type is invalid; then count it; continue; fi.
InvalidTypeContinues ==
    /\ script = "line" /\ line <= Len(file)
    /\ file[line].key # None /\ ~Valid(file[line])
    /\ failed' = failed + 1
    /\ line' = line + 1
    /\ UNCHANGED <<store, runs, script, file, success, tried, refusals, startVars>>

\* An invalid type is counted; "continue" comes last in the && list, so it is only
\* reached when the count has a status of 0.  In a list set -e does not apply.
InvalidType ==
    /\ script = "line" /\ line <= Len(file)
    /\ file[line].key # None /\ ~Valid(file[line])
    /\ failed' = failed + 1
    /\ IF Survives(failed) THEN line' = line + 1 /\ UNCHANGED script
                           ELSE script' = "put" /\ UNCHANGED line
    /\ UNCHANGED <<store, runs, file, success, tried, refusals, startVars>>

\* describe-parameters only decides which word is printed.
Describe ==
    /\ script = "line" /\ line <= Len(file)
    /\ file[line].key # None /\ Valid(file[line])
    /\ script' = "put"
    /\ UNCHANGED <<store, runs, file, line, success, failed, tried, refusals, startVars>>

\* The loop goes on, or the count of the outcome ended the script.
Continue(counter) ==
    IF Survives(counter) THEN script' = "line" /\ line' = line + 1
                         ELSE script' = "ended" /\ UNCHANGED line

(* aws ssm put-parameter --overwrite                                       *)
PutAccepted ==
    /\ script = "put" /\ Valid(file[line])
    /\ store' = [store EXCEPT ![file[line].key] = runs]
    /\ tried' = Append(tried, file[line])
    /\ success' = success + 1
    /\ Continue(success)
    /\ seen' = [c \in Containers |-> IF c \in Fetching THEN seen[c] \cup {store'} ELSE seen[c]]
    /\ writers' = [c \in Containers |-> IF c \in Fetching THEN writers[c] \cup {runs} ELSE writers[c]]
    /\ UNCHANGED <<runs, file, failed, refusals, start, todo, env, listed, missed>>

PutRefused ==
    /\ script = "put"
    /\ tried' = Append(tried, file[line])
    /\ refusals' = refusals + 1
    /\ failed' = failed + 1
    /\ Continue(failed)
    /\ UNCHANGED <<store, runs, file, success, startVars>>

\* The summary, and a status of 1 either way.
Summary ==
    /\ script = "line" /\ line > Len(file)
    /\ script' = "ended"
    /\ UNCHANGED <<store, runs, file, line, success, failed, tried, refusals, startVars>>

-----------------------------------------------------------------------------
(* start.sh                                                                *)

\* A failed call reads as an empty list, which is a warning.
List(c) ==
    /\ start[c] = "created"
    /\ start' = [start EXCEPT ![c] = "get"]
    /\ \E names \in {{k \in Keys : store[k] # None}, {}} :
        /\ todo' = [todo EXCEPT ![c] = names]
        /\ listed' = [listed EXCEPT ![c] = names]
    /\ seen' = [seen EXCEPT ![c] = {store}]
    /\ UNCHANGED <<store, publishVars, env, missed, writers>>

Get(c) ==
    /\ start[c] = "get"
    /\ \E k \in todo[c] :
        /\ todo' = [todo EXCEPT ![c] = @ \ {k}]
        /\ env' = [env EXCEPT ![c][k] = store[k]]
    /\ UNCHANGED <<store, publishVars, start, listed, missed, seen, writers>>

\* A failed call reads as an empty value, which is a line of output.
GetFails(c) ==
    /\ start[c] = "get"
    /\ \E k \in todo[c] :
        /\ todo' = [todo EXCEPT ![c] = @ \ {k}]
        /\ missed' = [missed EXCEPT ![c] = @ \cup {k}]
    /\ UNCHANGED <<store, publishVars, start, env, listed, seen, writers>>

\* The Firebase account comes from S3, and the constructors find what they need.
Exec(c) ==
    /\ start[c] = "get" /\ todo[c] = {}
    /\ \A k \in Required : env[c][k] # None
    /\ start' = [start EXCEPT ![c] = "app"]
    /\ UNCHANGED <<store, publishVars, todo, env, listed, missed, seen, writers>>

\* The placeholder account ends the script, or a constructor throws.
Exit(c) ==
    /\ start[c] = "get" /\ todo[c] = {}
    /\ start' = [start EXCEPT ![c] = "exited"]
    /\ UNCHANGED <<store, publishVars, todo, env, listed, missed, seen, writers>>

\* Nobody publishes or starts anything.
Idle == script = "ended" /\ Fetching = {} /\ UNCHANGED vars

Publish ==
    Run \/ SkipBlank \/ InvalidType \/ Describe \/ PutAccepted \/ PutRefused \/ Summary

Next ==
    \/ Publish
    \/ \E c \in Containers : List(c) \/ Get(c) \/ GetFails(c) \/ Exec(c) \/ Exit(c)
    \/ Idle

Spec == Init /\ [][Next]_vars

-----------------------------------------------------------------------------
OneWriter(c) == \A q, r \in writers[c] : q = r
Got(c) == listed[c] \ (todo[c] \cup missed[c])

(* A container's environment is a state the store was in while it started, *)
(* unless two runs put something meanwhile or a value could not be had.    *)
(* start.sh takes no snapshot; one run alone cannot tear it, because it    *)
(* ends at its first accepted put.                                         *)
TornNeedsTwoRuns ==
    \A c \in Containers :
        start[c] # "created" /\ OneWriter(c) =>
            \E s \in seen[c] : \A k \in Got(c) : env[c][k] = s[k]

(* A second put is tried only if the first line to be counted had an invalid*)
(* type: any other first outcome counts from 0 and ends the script.         *)
SecondPutNeedsInvalidFirst == Len(tried) > 1 => ~Valid(tried[1])

(* README.md:146-148: the script creates the parameters that do not exist  *)
(* and updates those that do.                                              *)
EveryEntryIsPut ==
    script = "ended" /\ refusals = 0 /\ (\A i \in 1..Len(file) : Valid(file[i])) =>
        \A i \in 1..Len(file) : file[i].key # None => store[file[i].key] = runs
=============================================================================
