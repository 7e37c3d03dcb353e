------------------------------ MODULE Registry ------------------------------
(* The list of known books (registry.c), a JSON file that every running app   *)
(* reads whole, changes in memory and writes back whole: fopen("wb") empties  *)
(* the file before fwrite and fclose fill it, and a file that does not parse  *)
(* reads as an empty list.  open_book of app/main.c adds the book it opened;  *)
(* main() opens the most recent one.                                          *)
EXTENDS Naturals, FiniteSets

CONSTANTS Apps, Paths, NoPath,
          MaxClock      \* bound: opens and forgets
ASSUME RegistryAssumption == /\ NoPath \notin Paths
                             /\ MaxClock \in Nat

VARIABLES
  file,     \* the books file: whether it parses, and [path -> last_opened]
  app,      \* [Apps -> where it is, the change it is making and the list it read]
  open,     \* [Apps -> its current book]
  clock,    \* time(NULL), in opens
  known,    \* what the calls that returned MB_OK have put on record
  lost      \* history: a write came short, or its app stopped before it was done
registryVars == <<file, app, open, clock, known, lost>>

Lists == UNION {[S -> 1 .. MaxClock] : S \in SUBSET Paths}
Empty == [b \in {} |-> 1]
Whole(arr) == [parses |-> TRUE, list |-> arr]
Torn == [parses |-> FALSE, list |-> Empty]   \* absent, empty or cut short
Idle == [at |-> "idle", op |-> "none", path |-> NoPath, now |-> 0, arr |-> Empty]
Off == [Idle EXCEPT !.at = "off"]

RegistryInit == /\ file = Torn               \* there is no file yet
                /\ app = [p \in Apps |-> Off]
                /\ open = [p \in Apps |-> NoPath]
                /\ clock = 0
                /\ known = Empty
                /\ lost = FALSE

\* read_all: an absent or unreadable file is an empty list.
ReadAll == IF file.parses THEN file.list ELSE Empty

\* mb_registry_touch and mb_registry_forget on the list read.
WithNewOnly(arr, b, now) ==  \* slip: an entry that exists is not stamped again
  [x \in DOMAIN arr \cup {b} |-> IF x \in DOMAIN arr THEN arr[x] ELSE now]
With(arr, b, now) == [x \in DOMAIN arr \cup {b} |-> IF x = b THEN now ELSE arr[x]]
Without(arr, b) == [x \in DOMAIN arr \ {b} |-> arr[x]]
Changed(arr, j) == IF j.op = "touch" THEN With(arr, j.path, j.now) ELSE Without(arr, j.path)

\* What a call that returns MB_OK promises, for any list.
Recorded(j) == [b \in (DOMAIN known \ {j.path}) \cup (IF j.op = "touch" THEN {j.path} ELSE {})
                  |-> IF b = j.path THEN j.now ELSE known[b]]

\* mb_registry_list sorts by last_opened, descending.
MostRecent(arr) == {b \in DOMAIN arr : \A x \in DOMAIN arr : arr[x] <= arr[b]}

Begin(p, op, b) == /\ clock < MaxClock
                   /\ clock' = clock + 1
                   /\ app' = [app EXCEPT ![p] = [at |-> "read", op |-> op, path |-> b,
                                                 now |-> clock + 1, arr |-> Empty]]
                   /\ UNCHANGED <<file, known, lost>>

\* open_book: the store is opened (and the other closed) before the list is touched.
OpenBook(p, b) == Begin(p, "touch", b) /\ open' = [open EXCEPT ![p] = b]

\* main() without an argument: the most recent book, or the launcher when there
\* is none or its file has gone.
Launch(p) ==
  /\ app[p].at = "off"
  /\ \/ \E b \in MostRecent(ReadAll) : OpenBook(p, b)
     \/ /\ app' = [app EXCEPT ![p] = Idle]
        /\ UNCHANGED <<file, open, clock, known, lost>>

\* app.book_open and app.book_create.
Choose(p, b) == app[p].at = "idle" /\ OpenBook(p, b)

\* app.book_forget, also of the book that is open.
Forget(p, b) == app[p].at = "idle" /\ Begin(p, "forget", b) /\ UNCHANGED open

Read(p) == /\ app[p].at = "read"
           /\ app' = [app EXCEPT ![p].at = "truncate", ![p].arr = Changed(ReadAll, app[p])]
           /\ UNCHANGED <<file, open, clock, known, lost>>

Truncate(p) == /\ app[p].at = "truncate"
               /\ file' = Torn
               /\ app' = [app EXCEPT ![p].at = "write"]
               /\ UNCHANGED <<open, clock, known, lost>>

WriteAll(p) == /\ app[p].at = "write"
               /\ file' = Whole(app[p].arr)
               /\ known' = Recorded(app[p])
               /\ app' = [app EXCEPT ![p] = Idle]
               /\ UNCHANGED <<open, clock, lost>>

\* The disk is full: MB_ERR_IO, which open_book ignores.
WriteShort(p) == /\ app[p].at = "write"
                 /\ app' = [app EXCEPT ![p] = Idle]
                 /\ lost' = TRUE
                 /\ UNCHANGED <<file, open, clock, known>>

\* The user quits, or the process dies wherever it is.
QuitApp(p) == /\ app[p].at # "off"
              /\ lost' = (lost \/ app[p].at = "write")
              /\ app' = [app EXCEPT ![p] = Off]
              /\ open' = [open EXCEPT ![p] = NoPath]
              /\ UNCHANGED <<file, clock, known>>

RegistryNext == \E p \in Apps :
          \/ Launch(p) \/ Read(p) \/ Truncate(p) \/ WriteAll(p) \/ WriteShort(p) \/ QuitApp(p)
          \/ \E b \in Paths : Choose(p, b) \/ Forget(p, b)
RegistrySpec == RegistryInit /\ [][RegistryNext]_registryVars
-----------------------------------------------------------------------------
\* Every variable stays in its range.
RegistryTypeOK == /\ file \in [parses : BOOLEAN, list : Lists] /\ known \in Lists
                  /\ app \in [Apps -> [at : {"off", "idle", "read", "truncate", "write"},
                                       op : {"none", "touch", "forget"}, path : Paths \cup {NoPath},
                                       now : 0 .. MaxClock, arr : Lists]]
                  /\ open \in [Apps -> Paths \cup {NoPath}] /\ clock \in 0 .. MaxClock
                  /\ lost \in BOOLEAN

\* Between calls the file lists exactly the books the completed calls recorded:
\* an entry leaves the list only by a forget of it, and carries its last open.
\* A write cut short or never finished may lose entries, but what is listed is
\* always on record: no forgotten book comes back, no open is misdated.
Settled == \A p \in Apps : app[p].at \in {"off", "idle"}
ListIsCurrent ==
  /\ RegistryTypeOK
  /\ Settled => IF lost THEN \A b \in DOMAIN ReadAll : b \in DOMAIN known /\ ReadAll[b] = known[b]
                        ELSE ReadAll = known
=============================================================================
