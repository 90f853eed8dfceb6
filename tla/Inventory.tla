------------------------------ MODULE Inventory ------------------------------
(***************************************************************************)
(* The component database and the screens that use it: the slots stored in *)
(* FlashDB (components_add_kv, components_find_kv), the list of search     *)
(* results with a row for each component found, and the amounts that a     *)
(* person puts in and takes out (event_get_component_cb).                  *)
(*                                                                         *)
(* Every callback runs to its end on the LVGL thread, and while a box is   *)
(* shown nothing behind it can be clicked.  What makes this hard is that   *)
(* an amount lives three times: as a 32-bit number in the store, as text   *)
(* on the row, which is parsed again and written back, and as the parts in *)
(* the slot, which the person moves after the store has changed.           *)
(*                                                                         *)
(* The five texts that describe a component beside its type are one value, *)
(* and the JSON built of them is a record; a long one is cut when stored   *)
(* and no longer parses.  shelf, todo and wary are history: the parts in   *)
(* each slot, what the person is asked to move, and the slots where a      *)
(* write failed or a restart came between the store and the parts.         *)
(***************************************************************************)
EXTENDS Integers, FiniteSets

CONSTANTS
    MaxComponents,  \* MAX_COMPONENT_COUNT: slots in the cabinet (36)
    Top,            \* 2^31: half the range of quantity, one above the largest int
    Vals, LongVals, \* the texts that describe a component; the long ones
    Typed,          \* the numbers a person types
    Nothing,
    Faults          \* allocations and flash writes may fail

ASSUME InventoryAssumption ==
    /\ MaxComponents \in Nat \ {0}
    /\ Top \in Nat \ {0}
    /\ LongVals \subseteq Vals
    /\ Typed \subseteq Int
    /\ Faults \in BOOLEAN

Keys  == 0 .. MaxComponents - 1
Types == {"Resistor", "Capacitor", "Inductor"}
Components == [type : Types, val : Vals]

VARIABLES
    kv,     \* the store: a component_info for each slot in use
    rows,   \* the panels on ui_refreshPanel, by key: the text and the amount
    box,    \* the message box on the screen
    shelf, todo, wary

vars == <<kv, rows, box, shelf, todo, wary>>

-----------------------------------------------------------------------------
(* Numbers: uint32_t quantity, atoi of a text, "%ld" of a quantity.        *)

Modulus == 2 * Top
Amounts == 0 .. Modulus - 1

\* atoi saturates at the ends of int, and is assigned to an unsigned number.
Atoi(n) == (IF n >= Top THEN Top - 1 ELSE IF n < -Top THEN -Top ELSE n) % Modulus

ShownUnsigned(q) == q                                       \* mutant of Shown
Shown(q) == IF q >= Top THEN q - Modulus ELSE q

Plus(q, n) == (q + n) % Modulus

-----------------------------------------------------------------------------
(* Texts: the JSON of a component.                                         *)

TypeWritten(type) == IF type = "Inductor" THEN "Indicator" ELSE type
Json(c) == [type |-> TypeWritten(c.type), val |-> c.val, whole |-> TRUE]
Texts   == [type : {"Resistor", "Capacitor", "Indicator"}, val : Vals, whole : BOOLEAN]
Infos   == [text : Texts, quantity : Amounts]       \* components_info
Moves   == [key : Keys, by : Int]                   \* what a person is asked to do

ASSUME NothingAssumption == Nothing \notin Infos /\ Nothing \notin Moves

\* strncpy to para_info: the first 127 characters.
Cut(text) == [text EXCEPT !.whole = text.val \notin LongVals]

\* cJSON_Parse succeeds, and the type and the filled-in filters match.
Matches(text, type, filter) ==
    /\ text.whole
    /\ text.type = type
    /\ filter # "" => filter = text.val

Used  == {k \in Keys : kv[k] # Nothing}
First(S) == CHOOSE k \in S : \A l \in S : k <= l
Without(f, k) == [l \in DOMAIN f \ {k} |-> f[l]]

-----------------------------------------------------------------------------
Init ==
    /\ kv = [k \in Keys |-> Nothing]
    /\ rows = [k \in {} |-> Nothing]
    /\ box = "none"
    /\ shelf = [k \in Keys |-> 0]
    /\ todo = Nothing
    /\ wary = {}

Notice == box' = "notice" /\ UNCHANGED <<kv, rows, shelf, todo, wary>>

\* fdb_kv_set_blob or fdb_kv_del, whose result nobody looks at.
Write(k, value) ==
    \/ kv' = [kv EXCEPT ![k] = value] /\ UNCHANGED wary
    \/ Faults /\ wary' = wary \cup {k} /\ UNCHANGED kv

\* The cabinet turns to slot k, and the person is to add n parts.
Ask(k, n) == box' = "finish" /\ todo' = [key |-> k, by |-> n]

\* addBTN_call_function and components_add_kv.
AddButton(c, n) ==
    /\ box = "none"
    /\ \/ \E k \in Used : kv[k].text = Json(c)
          /\ Notice
       \/ /\ \A k \in Used : kv[k].text # Json(c)
          /\ Used = Keys
          /\ Notice
       \/ /\ \A k \in Used : kv[k].text # Json(c)
          /\ Used # Keys
          /\ LET k == First(Keys \ Used)
             IN /\ Write(k, [text |-> Cut(Json(c)), quantity |-> Atoi(n)])
                /\ Ask(k, Atoi(n))
          /\ UNCHANGED <<rows, shelf>>
       \/ Faults /\ UNCHANGED vars                  \* rt_malloc failed

\* findBTN_call_function, components_find_kv and add_component_to_list.
FindButton(type, filter) ==
    /\ box = "none"
    /\ \/ rows' = [k \in {l \in Used : Matches(kv[l].text, type, filter)} |->
                      [text |-> kv[k].text, shown |-> Shown(kv[k].quantity)]]
       \/ Faults /\ rows' = [k \in {} |-> Nothing]  \* rt_malloc failed
    /\ UNCHANGED <<kv, box, shelf, todo, wary>>

\* event_get_component_cb with the switch on: put n parts in slot k.
Put(k, n) ==
    LET q == Plus(Atoi(rows[k].shown), Atoi(n)) IN
    /\ box = "none" /\ k \in DOMAIN rows
    /\ rows' = [rows EXCEPT ![k].shown = Shown(q)]
    /\ Write(k, [text |-> rows[k].text, quantity |-> q])
    /\ Ask(k, Atoi(n))
    /\ UNCHANGED shelf

TakeAllKeepsRow(k, n) ==                                    \* mutant of TakeAll
    /\ box = "none" /\ k \in DOMAIN rows
    /\ Atoi(n) = Atoi(rows[k].shown)
    /\ Write(k, Nothing)
    /\ Ask(k, -Atoi(n))
    /\ UNCHANGED <<rows, shelf>>

\* The same with the switch off, and no part left: the row goes too.
TakeAll(k, n) ==
    /\ box = "none" /\ k \in DOMAIN rows
    /\ Atoi(n) = Atoi(rows[k].shown)
    /\ Write(k, Nothing)
    /\ rows' = Without(rows, k)
    /\ Ask(k, -Atoi(n))
    /\ UNCHANGED shelf

\* The switch off, and some parts stay.
TakeSome(k, n) ==
    LET q == Atoi(rows[k].shown) - Atoi(n) IN
    /\ box = "none" /\ k \in DOMAIN rows
    /\ q > 0
    /\ rows' = [rows EXCEPT ![k].shown = Shown(q)]
    /\ Write(k, [text |-> rows[k].text, quantity |-> q])
    /\ Ask(k, -Atoi(n))
    /\ UNCHANGED shelf

\* The switch off, and not so many parts: "quantity is not enough".
TakeTooMany(k, n) ==
    /\ box = "none" /\ k \in DOMAIN rows
    /\ Atoi(n) > Atoi(rows[k].shown)
    /\ Notice

CloseNotice == box = "notice" /\ box' = "none" /\ UNCHANGED <<kv, rows, shelf, todo, wary>>

\* The person has moved the parts, counted in the same range as in the store.
Moved == shelf' = [shelf EXCEPT ![todo.key] = Plus(@, todo.by)]

\* event_finish_cb.
Finish ==
    /\ box = "finish"
    /\ box' = "none"
    /\ Moved
    /\ todo' = Nothing
    /\ UNCHANGED <<kv, rows, wary>>

\* A reset or a power cut: the store stays, the screen is empty, and the person
\* may or may not have moved the parts.
Restart ==
    /\ box' = "none"
    /\ rows' = [k \in {} |-> Nothing]
    /\ todo' = Nothing
    /\ IF todo = Nothing THEN UNCHANGED <<shelf, wary>>
       ELSE /\ Moved \/ UNCHANGED shelf
            /\ wary' = wary \cup {todo.key}
    /\ UNCHANGED kv

Next ==
    \/ \E c \in Components, n \in Typed : AddButton(c, n)
    \/ \E type \in Types, filter \in Vals \cup {""} : FindButton(type, filter)
    \/ \E k \in Keys, n \in Typed :
          Put(k, n) \/ TakeAll(k, n) \/ TakeSome(k, n) \/ TakeTooMany(k, n)
    \/ CloseNotice \/ Finish \/ Restart

Spec == Init /\ [][Next]_vars

-----------------------------------------------------------------------------
(* What must hold.                                                         *)

\* The type of the state.
TypeOK ==
    /\ kv \in [Keys -> Infos \cup {Nothing}]
    /\ DOMAIN rows \subseteq Keys
    /\ \A k \in DOMAIN rows : rows[k] \in [text : Texts, shown : -Top .. Top - 1]
    /\ box \in {"none", "notice", "finish"}
    /\ shelf \in [Keys -> Amounts]
    /\ todo \in Moves \cup {Nothing}
    /\ box = "finish" <=> todo # Nothing
    /\ wary \subseteq Keys

\* A row is about what its slot holds, so that writing it back changes no other
\* component, although slots are emptied and used again beside it; and its
\* amount is the stored one unless a write to the slot has failed.
RowsMatchStore ==
    \A k \in DOMAIN rows :
        /\ kv[k] # Nothing
        /\ rows[k].text = kv[k].text
        /\ k \notin wary => Atoi(rows[k].shown) = kv[k].quantity

\* A component is in one slot only, whatever was taken out, put in, interrupted
\* or not written; one whose text was cut is the exception.
NoTwins ==
    \A k, l \in Used : kv[k].text = kv[l].text /\ kv[k].text.whole => k = l

\* When nobody is asked to move parts, the store counts what is in each slot,
\* although it counts from the text of a row and not from its own last amount;
\* only a slot with a failed write, or whose parts were to be moved when the
\* board restarted, may differ, and it never makes another one differ.
StoreCountsParts ==
    todo = Nothing =>
        \A k \in Keys \ wary :
            shelf[k] = IF kv[k] = Nothing THEN 0 ELSE kv[k].quantity

\* README 7.3: the type of an inductor is "Inductor".  A search for all the
\* components of a type lists every one of them that was stored.
FindsWhatIsStored ==
    [][\A c \in Components :
          FindButton(c.type, "") =>
              \A k \in Used : kv[k].text = Json(c) => k \in DOMAIN rows']_vars
=============================================================================
