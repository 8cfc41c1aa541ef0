------------------------------- MODULE Lists -------------------------------
(***************************************************************************)
(* The linked list of A01-CLanguage/part3.c: cells on the heap of malloc,  *)
(* reached from the variable list of main, and the functions that put a    *)
(* cell in front or behind, reverse the list in place, and free it.  Each  *)
(* turn of a loop is a step.                                               *)
(***************************************************************************)
EXTENDS Integers, Sequences, SequencesExt, FiniteSets, Null

CONSTANTS
  Addresses,   \* bound of the model: as many cells as can be allocated
  Values

Cell == [value : Values, next : Addresses \union {NULL}]
cell(v, q) == [value |-> v, next |-> q]

ASSUME ListsAssumption ==
  /\ IsFiniteSet(Addresses)
  /\ NULL \notin Addresses /\ NULL \notin Cell

VARIABLES
  cells,       \* what is allocated: the cell at each address, or NULL
  list,        \* *thelist
  pc,
  newelt, p,             \* append
  new_list, curr_ptr,    \* reverse
  next_one,              \* makeempty
  contents     \* history variable, not in the code: the values that the calls
               \* made so far should leave in the list

locals == <<newelt, p, new_list, curr_ptr, next_one>>
list_vars == <<cells, list, pc, locals, contents>>

Allocated == {a \in Addresses : cells[a] # NULL}

ListInit ==
  /\ cells = [a \in Addresses |-> NULL]
  /\ list = NULL /\ contents = <<>>
  /\ pc = "idle"
  /\ newelt = NULL /\ p = NULL
  /\ new_list = NULL /\ curr_ptr = NULL /\ next_one = NULL
-----------------------------------------------------------------------------
(* makeempty *)

makeempty ==
  /\ pc = "idle"
  /\ next_one' = list
  /\ contents' = <<>>
  /\ pc' = "makeempty"
  /\ UNCHANGED <<cells, list, newelt, p, new_list, curr_ptr>>

FreeNext ==
  /\ pc = "makeempty" /\ next_one # NULL
  /\ next_one' = cells[next_one].next
  /\ cells' = [cells EXCEPT ![next_one] = NULL]
  /\ UNCHANGED <<list, pc, newelt, p, new_list, curr_ptr, contents>>

AllFreed ==
  /\ pc = "makeempty" /\ next_one = NULL
  /\ list' = NULL
  /\ pc' = "idle"
  /\ UNCHANGED <<cells, locals, contents>>
-----------------------------------------------------------------------------
(* prepend and append *)

\* malloc returned NULL: its result is written through without a look.
NoMemory ==
  /\ pc = "idle" /\ Allocated = Addresses
  /\ pc' = "crashed"
  /\ UNCHANGED <<cells, list, locals, contents>>

prepend(v) ==
  /\ pc = "idle"
  /\ \E a \in Addresses \ Allocated :
       /\ cells' = [cells EXCEPT ![a] = cell(v, list)]
       /\ list' = a
  /\ contents' = <<v>> \o contents
  /\ UNCHANGED <<pc, locals>>

append(v) ==
  /\ pc = "idle"
  /\ \E a \in Addresses \ Allocated :
       /\ cells' = [cells EXCEPT ![a] = cell(v, NULL)]
       /\ IF list = NULL
            THEN list' = a /\ UNCHANGED <<pc, newelt, p>>
            ELSE newelt' = a /\ p' = list /\ pc' = "append" /\ UNCHANGED list
  /\ contents' = contents \o <<v>>
  /\ UNCHANGED <<new_list, curr_ptr, next_one>>

Walk ==
  /\ pc = "append" /\ cells[p].next # NULL
  /\ p' = cells[p].next
  /\ UNCHANGED <<cells, list, pc, newelt, new_list, curr_ptr, next_one, contents>>

\* The locals are gone when the function returns.
Link ==
  /\ pc = "append" /\ cells[p].next = NULL
  /\ cells' = [cells EXCEPT ![p].next = newelt]
  /\ newelt' = NULL /\ p' = NULL /\ pc' = "idle"
  /\ UNCHANGED <<list, new_list, curr_ptr, next_one, contents>>
-----------------------------------------------------------------------------
(* reverse *)

reverse ==
  /\ pc = "idle"
  /\ new_list' = NULL /\ curr_ptr' = list
  /\ contents' = Reverse(contents)
  /\ pc' = "reverse"
  /\ UNCHANGED <<cells, list, newelt, p, next_one>>

\* Mutant: the next pointer is set before it has been read.
TurnFirst ==
  /\ pc = "reverse" /\ curr_ptr # NULL
  /\ cells' = [cells EXCEPT ![curr_ptr].next = new_list]
  /\ curr_ptr' = new_list /\ new_list' = curr_ptr
  /\ UNCHANGED <<list, pc, newelt, p, next_one, contents>>

Turn ==
  /\ pc = "reverse" /\ curr_ptr # NULL
  /\ curr_ptr' = cells[curr_ptr].next
  /\ cells' = [cells EXCEPT ![curr_ptr].next = new_list]
  /\ new_list' = curr_ptr
  /\ UNCHANGED <<list, pc, newelt, p, next_one, contents>>

Turned ==
  /\ pc = "reverse" /\ curr_ptr = NULL
  /\ list' = new_list
  /\ new_list' = NULL /\ pc' = "idle"
  /\ UNCHANGED <<cells, newelt, p, curr_ptr, next_one, contents>>

\* main calls the functions in an order of its own; any other is as good.
Call ==
  \/ makeempty \/ reverse \/ NoMemory
  \/ \E v \in Values : prepend(v) \/ append(v)

Step == FreeNext \/ AllFreed \/ Walk \/ Link \/ Turn \/ Turned

ListNext == Call \/ Step

ListSpec == ListInit /\ [][ListNext]_list_vars
-----------------------------------------------------------------------------
(* Properties *)

\* What follows the cell at q; nothing follows one that has been freed.
following(q) == IF q = NULL \/ cells[q] = NULL THEN NULL ELSE cells[q].next

\* The cells from a on, as printlist walks them; a walk that is longer than
\* there are addresses has met a cell twice.
chain(a) ==
  LET walk[n \in 1 .. Cardinality(Addresses) + 1] ==
        IF n = 1 THEN a ELSE following(walk[n - 1])
  IN  [n \in 1 .. Cardinality({m \in DOMAIN walk : walk[m] # NULL}) |-> walk[n]]

values(s) == [n \in DOMAIN s |-> IF cells[s[n]] = NULL THEN NULL ELSE cells[s[n]].value]

\* Between the calls the list holds what the calls so far amount to, and its
\* cells are all that is allocated: none lost, freed too early or met twice.
\* While a list is reversed or freed, what is done and what is left of it are.
ListRight ==
  LET whole == CASE pc = "idle" -> chain(list)
                 [] pc = "append" -> chain(list) \o <<newelt>>
                 [] pc = "reverse" -> Reverse(chain(curr_ptr)) \o chain(new_list)
                 [] pc = "makeempty" -> chain(next_one)
                 [] OTHER -> <<>>
  IN  pc # "crashed" =>
        /\ Cardinality(Allocated) = Len(whole)
        /\ Allocated = {whole[n] : n \in DOMAIN whole}
        /\ pc # "makeempty" => values(whole) = contents
=============================================================================
