--------------------------- MODULE InventoryProofs ---------------------------
(***************************************************************************)
(* Proofs about Inventory, for any number of slots, any range of the       *)
(* amounts and any texts, with failed writes and restarts.                 *)
(*                                                                         *)
(* The properties are inductive together but for one thing: between the    *)
(* write to the store and the click on Finish the store is ahead of the    *)
(* slot by what the person is asked to move.  AheadByTodo says so, and     *)
(* StoreCountsParts is the case in which nobody is asked.                  *)
(***************************************************************************)
EXTENDS Inventory, ListLemmas, TLAPS

USE InventoryAssumption, NothingAssumption

Amount(k) == IF kv[k] = Nothing THEN 0 ELSE kv[k].quantity

AheadByTodo ==
    \A k \in Keys \ wary :
        Amount(k) = IF todo # Nothing /\ k = todo.key THEN Plus(shelf[k], todo.by) ELSE shelf[k]

Inv == TypeOK /\ RowsMatchStore /\ NoTwins /\ AheadByTodo

(***************************************************************************)
(* Numbers.                                                                *)
(***************************************************************************)
LEMMA ModIn == \A n \in Int : n % Modulus \in Amounts
BY DEF Modulus, Amounts

LEMMA ModSmall == \A n \in Amounts : n % Modulus = n
BY DEF Modulus, Amounts

LEMMA ModBelow == \A n \in Amounts : (n - Modulus) % Modulus = n
BY DEF Modulus, Amounts

\* The text of a row is an int, and what is parsed is an unsigned number.
LEMMA ShownIn == \A q \in Amounts : Shown(q) \in -Top .. Top - 1
BY DEF Shown, Amounts, Modulus

LEMMA AtoiIn == \A n \in Int : Atoi(n) \in Amounts
<1> SUFFICES ASSUME NEW n \in Int PROVE Atoi(n) \in Amounts
  OBVIOUS
<1> DEFINE m == IF n >= Top THEN Top - 1 ELSE IF n < -Top THEN -Top ELSE n
<1>1. m \in Int
  OBVIOUS
<1> HIDE DEF m
<1>2. m % Modulus \in Amounts
  BY <1>1, ModIn
<1> QED BY <1>2 DEF Atoi, m

\* A number that was shown is read back.
LEMMA AtoiShown == \A q \in Amounts : Atoi(Shown(q)) = q
<1> SUFFICES ASSUME NEW q \in Amounts PROVE Atoi(Shown(q)) = q
  OBVIOUS
<1>1. CASE q >= Top
  <2>1. Shown(q) = q - Modulus /\ q - Modulus >= -Top /\ q - Modulus < Top /\ Modulus \in Int /\ q \in Int
    BY <1>1 DEF Shown, Amounts, Modulus
  <2>2. Atoi(Shown(q)) = (q - Modulus) % Modulus
    BY <2>1 DEF Atoi
  <2> QED BY <2>2, ModBelow
<1>2. CASE ~ (q >= Top)
  <2>1. Shown(q) = q /\ q >= -Top /\ q < Top /\ q \in Int
    BY <1>2 DEF Shown, Amounts, Modulus
  <2>2. Atoi(Shown(q)) = q % Modulus
    BY <2>1 DEF Atoi
  <2> QED BY <2>2, ModSmall
<1> QED BY <1>1, <1>2

LEMMA PlusIn == \A q, n \in Int : Plus(q, n) \in Amounts
BY ModIn DEF Plus

LEMMA NumbersAre ==
    /\ Amounts \subseteq Nat /\ 0 \in Amounts /\ Modulus \in Nat \ {0}
    /\ Typed \subseteq Int
    /\ \A n \in Amounts : n \in Int /\ -n \in Int /\ Plus(0, n) = n /\ Plus(n, -n) = 0
    /\ \A q, n \in Amounts : q - n > 0 => Plus(q, -n) = q - n /\ q - n \in Amounts
<1>1. /\ Amounts \subseteq Nat /\ 0 \in Amounts /\ Modulus \in Nat \ {0} /\ Typed \subseteq Int
  BY DEF Amounts, Modulus
<1>2. \A n \in Amounts : n \in Int /\ -n \in Int /\ Plus(0, n) = n /\ Plus(n, -n) = 0
  <2> SUFFICES ASSUME NEW n \in Amounts
               PROVE  n \in Int /\ -n \in Int /\ Plus(0, n) = n /\ Plus(n, -n) = 0
    OBVIOUS
  <2>1. n \in Int /\ 0 + n = n /\ n + (-n) = 0
    BY <1>1
  <2> QED BY <2>1, <1>1, ModSmall DEF Plus
<1>3. \A q, n \in Amounts : q - n > 0 => Plus(q, -n) = q - n /\ q - n \in Amounts
  <2> SUFFICES ASSUME NEW q \in Amounts, NEW n \in Amounts, q - n > 0
               PROVE  Plus(q, -n) = q - n /\ q - n \in Amounts
    OBVIOUS
  <2>1. q + (-n) = q - n /\ q - n \in Amounts
    BY DEF Amounts, Modulus
  <2> QED BY <2>1, ModSmall DEF Plus
<1> QED BY <1>1, <1>2, <1>3

(***************************************************************************)
(* Slots and texts.                                                        *)
(***************************************************************************)
LEMMA FirstIn ==
    ASSUME NEW S, S \subseteq Keys, S # {}
    PROVE  First(S) \in S
<1>1. S \subseteq Nat
  BY DEF Keys
<1> QED BY <1>1, NatMin DEF First

LEMMA TextsAre ==
    /\ \A c \in Components : Json(c) \in Texts /\ Json(c).whole
    /\ \A x \in Texts : Cut(x) \in Texts
    /\ \A x \in Texts : x.whole /\ Cut(x).whole => Cut(x) = x
<1>1. \A c \in Components : Json(c) \in Texts /\ Json(c).whole
  BY DEF Components, Types, Json, TypeWritten, Texts
<1>2. \A x \in Texts : Cut(x) \in Texts /\ (x.whole /\ Cut(x).whole => Cut(x) = x)
  <2> SUFFICES ASSUME NEW x \in Texts
               PROVE  Cut(x) \in Texts /\ (x.whole /\ Cut(x).whole => Cut(x) = x)
    OBVIOUS
  <2>1. Cut(x) = [type |-> x.type, val |-> x.val, whole |-> x.val \notin LongVals]
    BY DEF Cut, Texts
  <2>2. x = [type |-> x.type, val |-> x.val, whole |-> x.whole]
    BY DEF Texts
  <2>3. Cut(x) \in Texts
    BY <2>1 DEF Texts
  <2>4. ASSUME x.whole, Cut(x).whole PROVE Cut(x) = x
    <3> DEFINE b == x.whole
               short == x.val \notin LongVals
    <3>1. b \in BOOLEAN /\ short \in BOOLEAN /\ b /\ short
      <4>1. Cut(x).whole = short
        BY <2>1
      <4>2. x.whole \in BOOLEAN
        BY DEF Texts
      <4> QED BY <2>4, <4>1, <4>2
    <3>2. Cut(x) = [type |-> x.type, val |-> x.val, whole |-> short]
      BY <2>1
    <3>3. x = [type |-> x.type, val |-> x.val, whole |-> b]
      BY <2>2
    <3> HIDE DEF b, short
    <3>4. b = short
      BY <3>1, Zenon
    <3> QED BY <3>2, <3>3, <3>4, Zenon
  <2> QED BY <2>3, <2>4
<1> QED BY <1>1, <1>2

(***************************************************************************)
(* A write to the store, whether it is done or fails, together with what   *)
(* the person is asked to do.  k is the slot, q the amount that was there  *)
(* and n the parts to add.                                                 *)
(***************************************************************************)
LEMMA WriteCounts ==
    ASSUME TypeOK, AheadByTodo, todo = Nothing, UNCHANGED shelf,
           NEW k \in Keys, NEW value \in Infos \cup {Nothing}, Write(k, value),
           NEW n \in Int, Ask(k, n),
           k \notin wary =>
               (IF value = Nothing THEN 0 ELSE value.quantity) = Plus(Amount(k), n)
    PROVE  AheadByTodo'
<1>1. todo' = [key |-> k, by |-> n] /\ todo'.key = k /\ todo'.by = n /\ todo' # Nothing
  BY DEF Ask, Moves
<1> SUFFICES ASSUME NEW l \in Keys, l \notin wary'
             PROVE  Amount(l)' = IF l = k THEN Plus(shelf[l], n) ELSE shelf[l]
  BY <1>1 DEF AheadByTodo, Amount
<1>2. l \notin wary /\ (l = k => kv'[l] = value) /\ (l # k => kv'[l] = kv[l])
  BY DEF Write, TypeOK
<1>3. Amount(l) = shelf[l]
  BY <1>2 DEF AheadByTodo
<1> QED BY <1>2, <1>3 DEF Amount

LEMMA AskedIs ==
    ASSUME NEW k \in Keys, NEW n \in Int, Ask(k, n)
    PROVE  box' = "finish" /\ todo' \in Moves /\ todo' # Nothing
BY DEF Ask, Moves

\* What a write leaves of the store.
LEMMA WriteTyped ==
    ASSUME TypeOK, NEW k \in Keys, NEW value \in Infos \cup {Nothing}, Write(k, value)
    PROVE  /\ kv' \in [Keys -> Infos \cup {Nothing}] /\ wary' \subseteq Keys
           /\ \A l \in Keys : l # k => kv'[l] = kv[l]
           /\ kv'[k] \in {kv[k], value}
           /\ wary \subseteq wary' /\ (k \notin wary' => kv'[k] = value)
BY DEF Write, TypeOK

-----------------------------------------------------------------------------
LEMMA InvInit == Init => Inv
<1> SUFFICES ASSUME Init PROVE Inv
  OBVIOUS
<1>1. Used = {}
  BY DEF Init, Used
<1>2. TypeOK
  BY NumbersAre DEF Init, TypeOK
<1>3. RowsMatchStore /\ NoTwins
  BY <1>1 DEF Init, RowsMatchStore, NoTwins
<1>4. AheadByTodo
  BY DEF Init, AheadByTodo, Amount
<1> QED BY <1>2, <1>3, <1>4 DEF Inv

LEMMA InvStutter == ASSUME Inv, UNCHANGED vars PROVE Inv'
BY DEF Inv, vars, TypeOK, RowsMatchStore, NoTwins, Used, AheadByTodo, Amount

LEMMA InvNotice == ASSUME Inv, box = "none", Notice PROVE Inv'
<1>1. todo = Nothing
  BY DEF Inv, TypeOK
<1> QED BY <1>1 DEF Inv, Notice, TypeOK, RowsMatchStore, NoTwins, Used, AheadByTodo, Amount

LEMMA InvCloseNotice == ASSUME Inv, CloseNotice PROVE Inv'
<1>1. todo = Nothing
  BY DEF Inv, TypeOK, CloseNotice
<1> QED BY <1>1 DEF Inv, CloseNotice, TypeOK, RowsMatchStore, NoTwins, Used, AheadByTodo, Amount

LEMMA InvAdd ==
    ASSUME Inv, NEW c \in Components, NEW n \in Typed, AddButton(c, n)
    PROVE  Inv'
<1>0. todo = Nothing /\ box = "none" /\ n \in Int
  BY NumbersAre DEF Inv, TypeOK, AddButton
<1>1. CASE Notice
  BY <1>0, <1>1, InvNotice
<1>2. CASE UNCHANGED vars
  BY <1>2, InvStutter
<1>3. CASE /\ \A l \in Used : kv[l].text # Json(c)
           /\ Used # Keys
           /\ LET k == First(Keys \ Used)
              IN /\ Write(k, [text |-> Cut(Json(c)), quantity |-> Atoi(n)])
                 /\ Ask(k, Atoi(n))
           /\ UNCHANGED <<rows, shelf>>
  <2> DEFINE k == First(Keys \ Used)
             new == [text |-> Cut(Json(c)), quantity |-> Atoi(n)]
  <2>1. k \in Keys /\ k \notin Used /\ kv[k] = Nothing
    <3>1. Keys \ Used \subseteq Keys /\ Keys \ Used # {}
      BY <1>3 DEF Used
    <3>2. k \in Keys \ Used
      BY <3>1, FirstIn
    <3> QED BY <3>2 DEF Used
  <2> HIDE DEF k
  <2>2. Atoi(n) \in Amounts /\ new \in Infos /\ new # Nothing
    BY <1>0, AtoiIn, TextsAre DEF Infos
  <2>3. Write(k, new) /\ Ask(k, Atoi(n)) /\ UNCHANGED <<rows, shelf>>
    BY <1>3 DEF k
  <2>4. /\ kv' \in [Keys -> Infos \cup {Nothing}] /\ wary' \subseteq Keys
        /\ \A l \in Keys : l # k => kv'[l] = kv[l]
        /\ kv'[k] \in {kv[k], new}
        /\ wary \subseteq wary' /\ (k \notin wary' => kv'[k] = new)
    BY <2>1, <2>2, <2>3, WriteTyped DEF Inv
  <2>5. TypeOK'
    <3>1. box' = "finish" /\ todo' \in Moves /\ todo' # Nothing
      BY <2>1, <2>2, <2>3, AskedIs, NumbersAre
    <3>2. UNCHANGED <<rows, shelf>>
      BY <2>3
    <3> QED BY <3>1, <3>2, <2>4 DEF Inv, TypeOK
  <2>6. RowsMatchStore'
    <3>1. k \notin DOMAIN rows /\ DOMAIN rows \subseteq Keys
      BY <2>1 DEF Inv, TypeOK, RowsMatchStore
    <3> QED BY <3>1, <2>3, <2>4 DEF Inv, RowsMatchStore
  <2>7. NoTwins'
    <3> SUFFICES ASSUME NEW a \in Used', NEW b \in Used',
                        kv'[a].text = kv'[b].text, kv'[a].text.whole
                 PROVE  a = b
      BY DEF NoTwins
    <3>1. CASE kv'[k] = kv[k]
      <4>1. a \in Used /\ b \in Used /\ kv'[a] = kv[a] /\ kv'[b] = kv[b]
        BY <3>1, <2>4 DEF Used
      <4> QED BY <4>1 DEF Inv, NoTwins
    <3>2. CASE kv'[k] = new
      <4>1. new.text = Json(c) \/ ~ new.text.whole
        BY TextsAre
      <4>2. /\ a # k => a \in Used /\ kv'[a] = kv[a]
            /\ b # k => b \in Used /\ kv'[b] = kv[b]
        BY <2>4 DEF Used
      <4>3. CASE a # k /\ b # k
        BY <4>2, <4>3 DEF Inv, NoTwins
      <4>4. CASE a = k /\ b # k
        BY <4>1, <4>2, <4>4, <3>2, <1>3
      <4>5. CASE a # k /\ b = k
        BY <4>1, <4>2, <4>5, <3>2, <1>3
      <4> QED BY <4>3, <4>4, <4>5
    <3> QED BY <3>1, <3>2, <2>4
  <2>8. AheadByTodo'
    <3>1. new.quantity = Atoi(n) /\ Amount(k) = 0 /\ Plus(0, Atoi(n)) = Atoi(n) /\ Atoi(n) \in Int
      BY <2>1, <2>2, NumbersAre DEF Amount
    <3> HIDE DEF new
    <3> QED BY <3>1, <1>0, <2>1, <2>2, <2>3, WriteCounts DEF Inv
  <2> QED BY <2>5, <2>6, <2>7, <2>8 DEF Inv
<1> QED BY <1>1, <1>2, <1>3 DEF AddButton

LEMMA InvFind ==
    ASSUME Inv, NEW type \in Types, NEW filter, FindButton(type, filter)
    PROVE  Inv'
<1> DEFINE found == {l \in Used : Matches(kv[l].text, type, filter)}
           list  == [k \in found |-> [text |-> kv[k].text, shown |-> Shown(kv[k].quantity)]]
<1>1. UNCHANGED <<kv, box, shelf, todo, wary>>
  BY DEF FindButton
<1>2. \A k \in Used : kv[k] \in Infos /\ kv[k] # Nothing /\ k \in Keys
  BY DEF Inv, TypeOK, Used
<1>3. rows' = list \/ rows' = [k \in {} |-> Nothing]
  BY DEF FindButton
<1>4. /\ DOMAIN rows' \subseteq Used
      /\ \A k \in DOMAIN rows' : rows'[k] = [text |-> kv[k].text, shown |-> Shown(kv[k].quantity)]
  BY <1>3
<1>5. TypeOK'
  <2>1. \A k \in DOMAIN rows' : rows'[k] \in [text : Texts, shown : -Top .. Top - 1]
    BY <1>2, <1>4, ShownIn DEF Infos
  <2> QED BY <1>1, <1>2, <1>4, <2>1 DEF Inv, TypeOK
<1>6. RowsMatchStore'
  BY <1>1, <1>2, <1>4, AtoiShown DEF RowsMatchStore, Infos
<1>7. NoTwins' /\ AheadByTodo'
  BY <1>1 DEF Inv, NoTwins, AheadByTodo, Used, Amount
<1> QED BY <1>5, <1>6, <1>7 DEF Inv

(***************************************************************************)
(* Put, TakeAll and TakeSome start from the amount on a row.               *)
(***************************************************************************)
LEMMA RowIs ==
    ASSUME Inv, NEW k \in DOMAIN rows
    PROVE  /\ k \in Keys /\ kv[k] \in Infos /\ kv[k] # Nothing
           /\ rows[k].text = kv[k].text /\ rows[k].text \in Texts
           /\ rows[k].shown \in -Top .. Top - 1
           /\ Atoi(rows[k].shown) \in Amounts
           /\ k \notin wary => Amount(k) = Atoi(rows[k].shown)
<1>1. /\ k \in Keys /\ kv[k] \in Infos /\ kv[k] # Nothing
      /\ rows[k].text = kv[k].text /\ rows[k].shown \in -Top .. Top - 1
      /\ rows[k].text \in Texts
      /\ k \notin wary => kv[k].quantity = Atoi(rows[k].shown)
  BY DEF Inv, TypeOK, RowsMatchStore
<1>2. rows[k].shown \in Int
  BY <1>1
<1>3. Atoi(rows[k].shown) \in Amounts
  BY <1>2, AtoiIn
<1> QED BY <1>1, <1>3 DEF Amount

\* A row whose amount is set, written back to its slot.
LEMMA InvWriteBack ==
    ASSUME Inv, box = "none", NEW k \in DOMAIN rows, NEW q \in Amounts, NEW n \in Int,
           rows' = [rows EXCEPT ![k].shown = Shown(q)],
           Write(k, [text |-> rows[k].text, quantity |-> q]),
           Ask(k, n), UNCHANGED shelf,
           q = Plus(Atoi(rows[k].shown), n)
    PROVE  Inv'
<1> DEFINE new == [text |-> rows[k].text, quantity |-> q]
<1>0. todo = Nothing
  BY DEF Inv, TypeOK
<1>1. new \in Infos /\ new # Nothing /\ k \in Keys /\ kv[k] # Nothing
  BY RowIs DEF Infos
<1>2. /\ kv' \in [Keys -> Infos \cup {Nothing}] /\ wary' \subseteq Keys
      /\ \A l \in Keys : l # k => kv'[l] = kv[l]
      /\ kv'[k] \in {kv[k], new}
      /\ wary \subseteq wary' /\ (k \notin wary' => kv'[k] = new)
  BY <1>1, WriteTyped DEF Inv
<1>3. /\ DOMAIN rows' = DOMAIN rows
      /\ \A l \in DOMAIN rows : l # k => rows'[l] = rows[l]
      /\ rows'[k] = [rows[k] EXCEPT !.shown = Shown(q)]
  OBVIOUS
<1>4. rows'[k] = [text |-> rows[k].text, shown |-> Shown(q)]
  <2>1. rows[k] \in [text : Texts, shown : -Top .. Top - 1]
    BY DEF Inv, TypeOK
  <2> QED BY <1>3, <2>1
<1>5. \A l \in Keys : kv'[l] # Nothing <=> kv[l] # Nothing
  BY <1>1, <1>2
<1>6. \A l \in Keys : kv[l] # Nothing => kv'[l].text = kv[l].text
  <2>1. new.text = kv[k].text
    BY RowIs
  <2> QED BY <1>2, <2>1
<1>7. TypeOK'
  <2>1. box' = "finish" /\ todo' \in Moves /\ todo' # Nothing
    BY <1>1, AskedIs
  <2>2. rows'[k] \in [text : Texts, shown : -Top .. Top - 1]
    BY <1>4, ShownIn, RowIs
  <2>3. DOMAIN rows' \subseteq Keys
        /\ \A l \in DOMAIN rows' : rows'[l] \in [text : Texts, shown : -Top .. Top - 1]
    BY <1>3, <2>2 DEF Inv, TypeOK
  <2> QED BY <2>1, <2>3, <1>2 DEF Inv, TypeOK
<1>8. RowsMatchStore'
  <2> SUFFICES ASSUME NEW l \in DOMAIN rows'
               PROVE  /\ kv'[l] # Nothing /\ rows'[l].text = kv'[l].text
                      /\ l \notin wary' => Atoi(rows'[l].shown) = kv'[l].quantity
    BY DEF RowsMatchStore
  <2>1. l \in DOMAIN rows /\ l \in Keys /\ kv[l] # Nothing /\ rows[l].text = kv[l].text
        /\ (l \notin wary => Atoi(rows[l].shown) = kv[l].quantity)
    BY <1>3 DEF Inv, TypeOK, RowsMatchStore
  <2>2. CASE l = k
    BY <2>1, <2>2, <1>2, <1>4, <1>5, <1>6, AtoiShown
  <2>3. CASE l # k
    BY <2>1, <2>3, <1>2, <1>3
  <2> QED BY <2>2, <2>3
<1>9. NoTwins'
  BY <1>5, <1>6 DEF Inv, NoTwins, Used
<1>10. AheadByTodo'
  <2>1. new.quantity = q /\ (k \notin wary => q = Plus(Amount(k), n))
    BY RowIs
  <2> HIDE DEF new
  <2>2. Write(k, new)
    BY DEF new
  <2> QED BY <1>0, <1>1, <2>1, <2>2, WriteCounts DEF Inv
<1> QED BY <1>7, <1>8, <1>9, <1>10 DEF Inv

LEMMA InvPut == ASSUME Inv, NEW k \in Keys, NEW n \in Typed, Put(k, n) PROVE Inv'
<1> DEFINE q == Plus(Atoi(rows[k].shown), Atoi(n))
<1>1. k \in DOMAIN rows /\ box = "none"
  BY DEF Put
<1>2. Atoi(n) \in Int /\ q \in Amounts
  BY <1>1, RowIs, AtoiIn, NumbersAre, PlusIn
<1>3. /\ rows' = [rows EXCEPT ![k].shown = Shown(q)]
      /\ Write(k, [text |-> rows[k].text, quantity |-> q])
      /\ Ask(k, Atoi(n)) /\ UNCHANGED shelf
  BY DEF Put
<1> HIDE DEF q
<1>4. q = Plus(Atoi(rows[k].shown), Atoi(n))
  BY DEF q
<1> QED BY <1>1, <1>2, <1>3, <1>4, InvWriteBack

LEMMA InvTakeSome == ASSUME Inv, NEW k \in Keys, NEW n \in Typed, TakeSome(k, n) PROVE Inv'
<1> DEFINE q == Atoi(rows[k].shown) - Atoi(n)
<1>1. k \in DOMAIN rows /\ box = "none" /\ q > 0
  BY DEF TakeSome
<1>2. Atoi(rows[k].shown) \in Amounts /\ Atoi(n) \in Amounts
  BY <1>1, RowIs, AtoiIn, NumbersAre
<1>3. /\ rows' = [rows EXCEPT ![k].shown = Shown(q)]
      /\ Write(k, [text |-> rows[k].text, quantity |-> q])
      /\ Ask(k, -Atoi(n)) /\ UNCHANGED shelf
  BY DEF TakeSome
<1>4. q \in Amounts /\ q = Plus(Atoi(rows[k].shown), -Atoi(n)) /\ -Atoi(n) \in Int
  BY <1>1, <1>2, NumbersAre
<1> HIDE DEF q
<1> QED BY <1>1, <1>3, <1>4, InvWriteBack

LEMMA InvTakeAll == ASSUME Inv, NEW k \in Keys, NEW n \in Typed, TakeAll(k, n) PROVE Inv'
<1>1. /\ k \in DOMAIN rows /\ box = "none" /\ todo = Nothing
      /\ Atoi(n) = Atoi(rows[k].shown)
      /\ Write(k, Nothing) /\ Ask(k, -Atoi(n)) /\ UNCHANGED shelf
  BY DEF TakeAll, Inv, TypeOK
<1>2. /\ kv' \in [Keys -> Infos \cup {Nothing}] /\ wary' \subseteq Keys
      /\ \A l \in Keys : l # k => kv'[l] = kv[l]
      /\ kv'[k] \in {kv[k], Nothing}
      /\ wary \subseteq wary' /\ (k \notin wary' => kv'[k] = Nothing)
  BY <1>1, WriteTyped DEF Inv
<1>3. Atoi(n) \in Amounts /\ -Atoi(n) \in Int
  BY <1>1, RowIs, NumbersAre
<1>4. /\ DOMAIN rows' = DOMAIN rows \ {k}
      /\ \A l \in DOMAIN rows' : rows'[l] = rows[l]
  BY DEF TakeAll, Without
<1>5. TypeOK'
  <2>1. box' = "finish" /\ todo' \in Moves /\ todo' # Nothing
    BY <1>1, <1>3, AskedIs
  <2>2. DOMAIN rows' \subseteq Keys
        /\ \A l \in DOMAIN rows' : rows'[l] \in [text : Texts, shown : -Top .. Top - 1]
    BY <1>4 DEF Inv, TypeOK
  <2> QED BY <2>1, <2>2, <1>1, <1>2 DEF Inv, TypeOK
<1>6. RowsMatchStore'
  BY <1>2, <1>4 DEF Inv, TypeOK, RowsMatchStore
<1>7. NoTwins'
  <2>1. \A l \in Keys : kv'[l] # Nothing => kv'[l] = kv[l]
    BY <1>2
  <2> QED BY <2>1 DEF Inv, NoTwins, Used
<1>8. AheadByTodo'
  <2>1. k \notin wary => 0 = Plus(Amount(k), -Atoi(n))
    BY <1>1, <1>3, RowIs, NumbersAre
  <2> QED BY <1>1, <1>3, <2>1, WriteCounts DEF Inv
<1> QED BY <1>5, <1>6, <1>7, <1>8 DEF Inv

LEMMA InvTakeTooMany ==
    ASSUME Inv, NEW k \in Keys, NEW n \in Typed, TakeTooMany(k, n) PROVE Inv'
BY InvNotice DEF TakeTooMany

(***************************************************************************)
(* The person moves the parts, or the board restarts.                      *)
(***************************************************************************)
LEMMA MovedIs ==
    ASSUME Inv, todo # Nothing, Moved
    PROVE  /\ todo.key \in Keys /\ shelf' \in [Keys -> Amounts]
           /\ \A k \in Keys : shelf'[k] = IF k = todo.key THEN Plus(shelf[k], todo.by) ELSE shelf[k]
<1>1. todo.key \in Keys /\ todo.by \in Int
  BY DEF Inv, TypeOK, Moves
<1>2. shelf \in [Keys -> Amounts] /\ shelf[todo.key] \in Int
  BY <1>1, NumbersAre DEF Inv, TypeOK
<1>3. Plus(shelf[todo.key], todo.by) \in Amounts
  BY <1>1, <1>2, PlusIn
<1> QED BY <1>1, <1>2, <1>3 DEF Moved

LEMMA InvFinish == ASSUME Inv, Finish PROVE Inv'
<1>1. todo # Nothing /\ Moved /\ todo' = Nothing /\ box' = "none" /\ UNCHANGED <<kv, rows, wary>>
  BY DEF Finish, Inv, TypeOK
<1>2. /\ shelf' \in [Keys -> Amounts]
      /\ \A k \in Keys : shelf'[k] = IF k = todo.key THEN Plus(shelf[k], todo.by) ELSE shelf[k]
  BY <1>1, MovedIs
<1>3. TypeOK'
  BY <1>1, <1>2 DEF Inv, TypeOK
<1>4. RowsMatchStore' /\ NoTwins'
  BY <1>1 DEF Inv, RowsMatchStore, NoTwins, Used
<1>5. AheadByTodo'
  BY <1>1, <1>2 DEF Inv, AheadByTodo, Amount
<1> QED BY <1>3, <1>4, <1>5 DEF Inv

LEMMA InvRestart == ASSUME Inv, Restart PROVE Inv'
<1>1. box' = "none" /\ rows' = [k \in {} |-> Nothing] /\ todo' = Nothing /\ UNCHANGED kv
  BY DEF Restart
<1>2. RowsMatchStore' /\ NoTwins'
  BY <1>1 DEF Inv, RowsMatchStore, NoTwins, Used
<1>3. CASE todo = Nothing
  <2>1. UNCHANGED <<shelf, wary>>
    BY <1>3 DEF Restart
  <2>2. TypeOK'
    BY <1>1, <2>1 DEF Inv, TypeOK
  <2>3. AheadByTodo'
    BY <1>1, <1>3, <2>1 DEF Inv, AheadByTodo, Amount
  <2> QED BY <1>2, <2>2, <2>3 DEF Inv
<1>4. CASE todo # Nothing
  <2>1. todo.key \in Keys /\ wary' = wary \cup {todo.key}
    BY <1>4 DEF Restart, Inv, TypeOK, Moves
  <2>2. shelf' \in [Keys -> Amounts] /\ \A k \in Keys \ {todo.key} : shelf'[k] = shelf[k]
    <3>1. CASE Moved
      BY <1>4, <3>1, MovedIs
    <3>2. CASE UNCHANGED shelf
      BY <3>2 DEF Inv, TypeOK
    <3> QED BY <1>4, <3>1, <3>2 DEF Restart
  <2>3. TypeOK'
    BY <1>1, <2>1, <2>2 DEF Inv, TypeOK
  <2>4. AheadByTodo'
    BY <1>1, <1>4, <2>1, <2>2 DEF Inv, AheadByTodo, Amount
  <2> QED BY <1>2, <2>3, <2>4 DEF Inv
<1> QED BY <1>3, <1>4

LEMMA InvNext == ASSUME Inv, [Next]_vars PROVE Inv'
BY InvAdd, InvFind, InvPut, InvTakeAll, InvTakeSome, InvTakeTooMany, InvCloseNotice,
   InvFinish, InvRestart, InvStutter DEF Next

LEMMA InvAlways == Spec => []Inv
BY InvInit, InvNext, PTL DEF Spec

-----------------------------------------------------------------------------
\* The state keeps its type: every amount stays in its range.
THEOREM InventoryTyped == Spec => []TypeOK
BY InvAlways, PTL DEF Inv

\* Whatever is added, searched, taken, interrupted or not written, a row is
\* about the component in its slot, with its amount unless a write failed.
THEOREM RowsAreOfTheStore == Spec => []RowsMatchStore
BY InvAlways, PTL DEF Inv

\* No component whose text fits is ever in two slots.
THEOREM NoComponentTwice == Spec => []NoTwins
BY InvAlways, PTL DEF Inv

\* Whenever nobody is asked to move parts, the store counts what is in every
\* slot but those of a failed write or an interrupted move.
THEOREM TheStoreCounts == Spec => []StoreCountsParts
<1>1. Inv => StoreCountsParts
  BY DEF Inv, AheadByTodo, StoreCountsParts, Amount, TypeOK
<1> QED BY <1>1, InvAlways, PTL
=============================================================================
