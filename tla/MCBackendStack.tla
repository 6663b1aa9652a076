--------------------------- MODULE MCBackendStack ---------------------------
(***************************************************************************)
(* Small instances of the four models of the backends for TLC, side by     *)
(* side: a behaviour is one of the layers with an index file and a lock    *)
(* file, one of the local backend, one of a listing, or one of a migration *)
(* of the layout.                                                          *)
(***************************************************************************)
EXTENDS BackendStack, LocalBackend, RetryList, Layouts

VARIABLE part      \* which of the models takes the steps

AllCalls ==
  {<<"a", "load", "index">>, <<"a", "save", "index">>, <<"a", "remove", "index">>, <<"a", "stat", "index">>,
   <<"b", "load", "index">>, <<"b", "load", "lock">>}

Named(t, head, rest) == [type |-> t, name |-> IF rest = "" THEN <<head>> ELSE <<head, rest>>]

OldBucket ==
  {Named("pack", "ab", "1"), Named("pack", "ab", "2"), Named("pack", "cd", ""), Named("snapshot", "cd", "1"),
   Named("index", "ab", "1"), Named("key", "ab", "1"), Named("key", "cd", "1"), Named("lock", "cd", "1"),
   Named("config", "", "")}

\* The new layout is detected: there is nothing to migrate.
MigrationOver == moving = 0 /\ ParseLayout(objects, "", "default") = "default"

MCInit ==
  /\ part \in {"stack", "local", "list", "layout"}
  /\ Init /\ LocalInit /\ ListInit /\ LayoutsInit
  /\ part = "local" \/ (syncs = "all" /\ folder = "synced")
  /\ part = "stack" \/ (~atomic /\ stored["index"] = "full" /\ cached["index"] = "none")

MCNext ==
  \/ part = "stack" /\ Next /\ UNCHANGED <<part, localVars, listVars, layoutVars>>
  \/ part = "local" /\ LocalNext /\ UNCHANGED <<part, vars, listVars, layoutVars>>
  \/ part = "list" /\ ListNext /\ UNCHANGED <<part, vars, localVars, layoutVars>>
  \/ part = "layout" /\ LayoutsNext /\ UNCHANGED <<part, vars, localVars, listVars>>
  \/ part = "layout" /\ MigrationOver /\ UNCHANGED <<part, vars, localVars, listVars, layoutVars>>

MCSpec == MCInit /\ [][MCNext]_<<part, vars, localVars, listVars, layoutVars>> /\ Fairness

\* NamesExact of Layouts, for every set of files: each layout gives files different names, and
\* listing the directory of a type returns exactly the files of that type.
LayoutsExact ==
  part = "layout" /\ moving = 0 =>
    \A l \in {"default", "rest", "s3legacy"}, handles \in SUBSET Migrated : NamesExact(l, handles)

\* A bucket can be used in every state a migration of its layout can leave it in: no file is lost,
\* the layout it is opened with has its config and a key, and each layout names files uniquely.
LayoutsSafe == LayoutsTypeOK /\ MigrationKeeps /\ MigrationSafe /\ LayoutsExact
=============================================================================
