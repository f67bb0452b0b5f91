-------------------------- MODULE MC_ContainerList --------------------------
(***************************************************************************)
(* Two containers, "web" and "db", and the ps requests a user sends: no    *)
(* filter with and without --all, status filters (valid, several, and an   *)
(* invalid one), id and name filters alone and together, an unknown key.   *)
(***************************************************************************)
EXTENDS ContainerList, TLC

CONSTANTS c1, c2

MC_NameOf == c1 :> "web" @@ c2 :> "db"

Req(f, a) == [filters |-> f, all |-> a]

NoFilter == [k \in {} |-> {}]

MC_Requests ==
    {Req(NoFilter, FALSE), Req(NoFilter, TRUE),
     Req("status" :> {"exited"}, FALSE),
     Req("status" :> {"created"}, FALSE),
     Req("status" :> {"running", "paused"}, FALSE),
     Req("status" :> {"starting"}, FALSE),
     Req("id" :> {c1}, FALSE),
     Req("name" :> {"db"}, TRUE),
     Req("id" :> {c1} @@ "name" :> {"web"}, TRUE),
     Req("id" :> {c1} @@ "name" :> {"db"}, TRUE),
     Req("bogus" :> {"x"}, FALSE)}

Created == StateNew

Running == SetRunning(SetStarting(StateNew), 1, TRUE)

Exited == SetStopped(Running, 0)

MC_StartStates == {Created, Running, Exited}

==============================================================================
