---------------------------- MODULE Deployments ----------------------------
(***************************************************************************)
(* What the preparation of projects by StartService                        *)
(* (src/connection/api.go, service.go) is meant to be for a controller     *)
(* that starts one launch file after the other: every start works on its   *)
(* own project and on nothing else, and ends with a failure or with a node *)
(* that has its dependencies.  Whether a project is built is judged by     *)
(* traces, which a build that fails may leave as well.                     *)
(***************************************************************************)
EXTENDS Naturals

CONSTANTS
    Workers,       \* starts
    Projects,
    Venvs,         \* whether a start may want, or not want, a venv
    Requirements,  \* projects that have dependencies
    MaxCommits,    \* bound: commits in a repository
    None

VARIABLES
    commits,    \* [Projects -> commits in the remote repository]
    have,       \* [Projects -> commits fetched]
    built,      \* [Projects -> commits in the last build that succeeded]
    traces,     \* [Projects -> are there traces of a build?]
    deps,       \* [Projects -> projects whose dependencies its venv has]
    start       \* [Workers -> the start]

vars == <<commits, have, built, traces, deps, start>>

\* found   traces of an earlier build were there, so this start need not build
\* used    what the node runs with
New == [is |-> "idle", of |-> None, venv |-> FALSE, found |-> FALSE,
        used |-> [venv |-> None, install |-> 0]]

Init ==
    /\ commits = [pr \in Projects |-> 1]
    /\ have = [pr \in Projects |-> 0]
    /\ built = [pr \in Projects |-> 0]
    /\ traces = [pr \in Projects |-> FALSE]
    /\ deps = [pr \in Projects |-> {}]
    /\ start = [w \in Workers |-> New]

Push(pr) ==
    /\ commits[pr] < MaxCommits
    /\ commits' = [commits EXCEPT ![pr] = @ + 1]
    /\ UNCHANGED <<have, built, traces, deps, start>>

Begin(w, pr, venv) ==
    /\ start[w].is = "idle"
    /\ \A v \in Workers : start[v].is # "preparing"
    /\ start' = [start EXCEPT ![w] = [New EXCEPT !.is = "preparing",
                                                 !.of = pr, !.venv = venv]]
    /\ UNCHANGED <<commits, have, built, traces, deps>>

Prepares(w, pr) == start[w].is = "preparing" /\ start[w].of = pr

Fetch(w, pr) ==
    /\ Prepares(w, pr)
    /\ have' = [have EXCEPT ![pr] = commits[pr]]
    /\ UNCHANGED <<commits, built, traces, deps, start>>

Install(w, pr) ==
    /\ Prepares(w, pr)
    /\ deps' = [deps EXCEPT ![pr] = {pr}]
    /\ UNCHANGED <<commits, have, built, traces, start>>

Find(w, pr) ==
    /\ Prepares(w, pr)
    /\ traces[pr]
    /\ start' = [start EXCEPT ![w].found = TRUE]
    /\ UNCHANGED <<commits, have, built, traces, deps>>

Build(w, pr) ==
    /\ Prepares(w, pr)
    /\ built' = [built EXCEPT ![pr] = have[pr]]
    /\ traces' = [traces EXCEPT ![pr] = TRUE]
    /\ UNCHANGED <<commits, have, deps, start>>

\* What has failed may have been the build.
Fail(w, pr) ==
    /\ Prepares(w, pr)
    /\ start' = [start EXCEPT ![w].is = "failed"]
    /\ traces' \in {traces, [traces EXCEPT ![pr] = TRUE]}
    /\ UNCHANGED <<commits, have, built, deps>>

\* The node gets a venv of its own with what it needs.  What was fetched is what
\* runs, unless traces were found: then it is what was built last.
Launch(w, pr) ==
    /\ Prepares(w, pr)
    /\ traces[pr]
    /\ start[w].venv /\ pr \in Requirements => deps[pr] = {pr}
    /\ ~start[w].found => built[pr] = have[pr]
    /\ start' = [start EXCEPT
                   ![w].is = "launched",
                   ![w].used = [venv |-> IF start[w].venv THEN pr ELSE None,
                                install |-> built[pr]]]
    /\ UNCHANGED <<commits, have, built, traces, deps>>

Next ==
    \E pr \in Projects :
       \/ Push(pr)
       \/ \E w \in Workers :
             \/ \E venv \in Venvs : Begin(w, pr, venv)
             \/ Fetch(w, pr) \/ Install(w, pr) \/ Find(w, pr) \/ Build(w, pr)
             \/ Fail(w, pr) \/ Launch(w, pr)

Spec == Init /\ [][Next]_vars
=============================================================================
