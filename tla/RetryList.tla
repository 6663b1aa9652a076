------------------------------ MODULE RetryList ------------------------------
(***************************************************************************)
(* List of backend/retry: a listing that fails is started again, while     *)
(* files come and go.  The callback must not see a file twice.             *)
(***************************************************************************)
EXTENDS Integers, FiniteSets

CONSTANTS
  Name,            \* names of files
  ListTries,       \* how often a listing is started again
  ListFaults       \* "list" (the backend fails), "fn" (the callback does), "cancel" (the caller), "change" (files come and go)

ASSUME ListAssumption == ListTries \in Nat

VARIABLES
  names,           \* the files in the backend
  listPc,          \* "list", or how List has returned: "nil", "error" or "fn"
  left,            \* what the current listing has not yielded yet
  listed,          \* the files for which the callback has run
  innerErr,        \* whether the callback has returned an error
  listTries,       \* how often the listing was started again
  always,          \* the files that were there all the time
  ran              \* how often the callback has run for each file

listVars == <<names, listPc, left, listed, innerErr, listTries, always, ran>>

ListTypeOK ==
  /\ names \subseteq Name
  /\ listPc \in {"list", "nil", "error", "fn"}
  /\ left \subseteq Name
  /\ listed \subseteq Name
  /\ innerErr \in BOOLEAN
  /\ listTries \in 0 .. ListTries
  /\ always \subseteq Name
  /\ ran \in [Name -> Nat]

ListInit ==
  /\ names = Name
  /\ listPc = "list"
  /\ left = names
  /\ listed = {}
  /\ innerErr = FALSE
  /\ listTries = 0
  /\ always = names
  /\ ran = [n \in Name |-> 0]

\* Another call of List.
ListStart ==
  /\ listPc # "list"
  /\ listPc' = "list"
  /\ left' = names /\ always' = names
  /\ listed' = {} /\ innerErr' = FALSE /\ listTries' = 0
  /\ ran' = [n \in Name |-> 0]
  /\ UNCHANGED names

\* Mutant of ListFile: files are remembered, but the callback runs again.
ListFileAgain(n) ==
  /\ listPc = "list" /\ ~innerErr
  /\ n \in left
  /\ left' = left \ {n}
  /\ listed' = listed \cup {n}
  /\ ran' = [ran EXCEPT ![n] = @ + 1]
  /\ innerErr' \in {FALSE, "fn" \in ListFaults}
  /\ UNCHANGED <<names, listPc, listTries, always>>

\* The backend yields a file; the callback runs unless it has run for that file before.
ListFile(n) ==
  /\ listPc = "list" /\ ~innerErr
  /\ n \in left
  /\ left' = left \ {n}
  /\ \/ /\ n \in listed
        /\ UNCHANGED <<listed, ran, innerErr>>
     \/ /\ n \notin listed
        /\ listed' = listed \cup {n}
        /\ ran' = [ran EXCEPT ![n] = @ + 1]
        /\ innerErr' \in {FALSE, "fn" \in ListFaults}
  /\ UNCHANGED <<names, listPc, listTries, always>>

\* The listing is complete.
ListEnds ==
  /\ listPc = "list" /\ ~innerErr
  /\ left = {}
  /\ listPc' = "nil"
  /\ UNCHANGED <<names, left, listed, innerErr, listTries, always, ran>>

\* The callback has failed and cancelled the context: its error is returned.
ListAborts ==
  /\ listPc = "list" /\ innerErr
  /\ listPc' = "fn"
  /\ UNCHANGED <<names, left, listed, innerErr, listTries, always, ran>>

\* The backend fails, and the listing is started again.
ListAgain ==
  /\ "list" \in ListFaults
  /\ listPc = "list" /\ ~innerErr
  /\ listTries < ListTries
  /\ listTries' = listTries + 1
  /\ left' = names
  /\ UNCHANGED <<names, listPc, listed, innerErr, always, ran>>

\* The backend fails, for the last time or because the context was cancelled.
ListFails ==
  /\ "list" \in ListFaults
  /\ listPc = "list" /\ ~innerErr
  /\ listTries = ListTries \/ "cancel" \in ListFaults
  /\ listPc' = "error"
  /\ UNCHANGED <<names, left, listed, innerErr, listTries, always, ran>>

\* A file is created, which the listing may still yield, or removed.
FilesChange(n) ==
  /\ "change" \in ListFaults
  /\ listPc = "list"
  /\ \/ n \notin names /\ names' = names \cup {n} /\ left' \in {left, left \cup {n}} /\ UNCHANGED always
     \/ n \in names /\ names' = names \ {n} /\ left' \in {left, left \ {n}} /\ always' = always \ {n}
  /\ UNCHANGED <<listPc, listed, innerErr, listTries, ran>>

ListNext ==
  \/ \E n \in Name : ListFile(n) \/ FilesChange(n)
  \/ ListStart \/ ListEnds \/ ListAborts \/ ListAgain \/ ListFails

ListSpec == ListInit /\ [][ListNext]_listVars

\* The callback runs at most once for each file, however often the listing is started again.
ListsOnce == \A n \in Name : ran[n] <= 1

\* When List returns nil, the callback has run for every file that was there all the time, and
\* has not failed.
ListsAll == listPc = "nil" => always \subseteq listed /\ ~innerErr

\* List of backend/retry is exact although it starts again: its callback sees no file twice and,
\* if it returns nil, every file that was there all the time.
ListingExact == ListTypeOK /\ ListsOnce /\ ListsAll
=============================================================================
