----------------------------- MODULE ListingProofs -----------------------------
(***************************************************************************)
(* As long as requests take turns, an item keeps the terms its open orders *)
(* were placed under, and a serialized item can be decided about.  Both    *)
(* rest on what a request knows between its reads and its commit.  However *)
(* requests overlap, an item's photos stay within their limit but for the  *)
(* uploads let in together.                                                *)
(***************************************************************************)
EXTENDS Listings, FiniteSetTheorems, TLAPS

LEMMA AnyTermsType == AnyTerms \in Terms
<1>1. \E t \in Terms : TRUE
  <2>1. PICK p \in Prices : TRUE
    BY ListingsAssumption
  <2>2. [price |-> p, is_serialized |-> FALSE, unique_id |-> FALSE, dispute_policy |-> FALSE]
          \in Terms
    BY <2>1 DEF Terms
  <2> QED BY <2>2
<1> QED BY <1>1 DEF AnyTerms

LEMMA NoWorkType == NoWork \in Work
<1>1. NoChange \in Changes
  BY ListingsAssumption DEF NoChange
<1>2. (CHOOSE i \in Items : TRUE) \in Items
  BY ListingsAssumption
<1> QED BY <1>1, <1>2, AnyTermsType DEF NoWork, Work, Steps, Ops

LEMMA NoOrderType == NoOrder \in Order
<1>1. (CHOOSE i \in Items : TRUE) \in Items
  BY ListingsAssumption
<1> QED BY <1>1, AnyTermsType DEF NoOrder, Order, States

\* Merging a change keeps terms.
LEMMA MergedType ==
    ASSUME NEW t \in Terms, NEW change \in Changes PROVE Merged(t, change) \in Terms
<1> DEFINE new == Merged(t, change)
<1>1. DOMAIN t = TermFields
  BY DEF Terms, TermFields
<1>2. DOMAIN new = TermFields /\ new = [f \in TermFields |-> new[f]]
  BY <1>1 DEF Merged
<1>3. /\ "price" \in DOMAIN change => change["price"] \in Prices
      /\ \A f \in DOMAIN change \ {"price"} : change[f] \in BOOLEAN
  BY ListingsAssumption
<1>4. new["price"] \in Prices
  BY <1>1, <1>3 DEF Merged, Terms, TermFields
<1>5. \A f \in TermFields \ {"price"} : new[f] \in BOOLEAN
  BY <1>1, <1>3 DEF Merged, Terms, TermFields
<1>6. /\ new["is_serialized"] \in BOOLEAN /\ new["unique_id"] \in BOOLEAN
      /\ new["dispute_policy"] \in BOOLEAN
  BY <1>5 DEF TermFields
<1> HIDE DEF new
<1>7. new \in Terms
  BY <1>2, <1>4, <1>6 DEF Terms, TermFields
<1> QED BY <1>7 DEF new

LEMMA WrittenType ==
    ASSUME NEW now \in Terms, NEW was \in Terms, NEW new \in Terms
    PROVE  Written(now, was, new) \in Terms
<1> DEFINE row == Written(now, was, new)
<1>1. DOMAIN now = TermFields
  BY DEF Terms, TermFields
<1>2. DOMAIN row = TermFields /\ row = [f \in TermFields |-> row[f]]
  BY <1>1 DEF Written
<1>3. row["price"] \in Prices
  BY <1>1 DEF Written, Terms, TermFields
<1>4. /\ row["is_serialized"] \in BOOLEAN /\ row["unique_id"] \in BOOLEAN
      /\ row["dispute_policy"] \in BOOLEAN
  BY <1>1 DEF Written, Terms, TermFields
<1> HIDE DEF row
<1>5. row \in Terms
  BY <1>2, <1>3, <1>4 DEF Terms, TermFields
<1> QED BY <1>5 DEF row

\* A row that nobody else changed becomes what was merged.
LEMMA WrittenAlone ==
    ASSUME NEW now \in Terms, NEW new \in Terms PROVE Written(now, now, new) = new
BY DEF Written, Terms

-----------------------------------------------------------------------------
(***************************************************************************)
(* Types.                                                                  *)
(***************************************************************************)
LEMMA InitType == Init => TypeOK
BY AnyTermsType, NoWorkType, NoOrderType DEF Init, TypeOK

LEMMA DoneType ==
    ASSUME TypeOK, NEW r \in Requests, Done(r) PROVE work' \in [Requests -> Work]
BY NoWorkType DEF Done, TypeOK

LEMMA LoadType ==
    ASSUME TypeOK, NEW r \in Requests, NEW op \in Ops, NEW i \in Items, NEW change \in Changes,
           Load(r, op, i, change)
    PROVE  TypeOK'
<1> DEFINE w == [work[r] EXCEPT !.step = "loaded", !.op = op, !.item = i, !.change = change,
                                !.terms = terms[i], !.archived = archived[i]]
<1>1. terms[i] \in Terms /\ archived[i] \in BOOLEAN /\ work[r] \in Work
  BY DEF TypeOK
<1>2. w \in Work
  BY <1>1 DEF Work, Steps
<1>3. work' = [work EXCEPT ![r] = w]
  BY DEF Load
<1> HIDE DEF w
<1>4. work' \in [Requests -> Work]
  BY <1>2, <1>3 DEF TypeOK
<1> QED BY <1>4 DEF Load, TypeOK

LEMMA CheckType ==
    ASSUME TypeOK, NEW r \in Requests, Check(r) PROVE TypeOK'
<1> DEFINE w == [work[r] EXCEPT !.step = "checked", !.place = Len(photos[work[r].item])]
<1>1. work[r] \in Work /\ Len(photos[work[r].item]) \in Nat
  BY DEF TypeOK, Work
<1>2. w \in Work
  BY <1>1 DEF Work, Steps
<1>3. work' = [work EXCEPT ![r] = IF Allowed(work[r]) THEN w ELSE NoWork]
  BY DEF Check
<1> HIDE DEF w
<1>4. work' \in [Requests -> Work]
  BY <1>2, <1>3, NoWorkType DEF TypeOK
<1> QED BY <1>4 DEF Check, TypeOK

LEMMA EditType ==
    ASSUME TypeOK, NEW r \in Requests, Edit(r) PROVE TypeOK'
<1> DEFINE w   == work[r]
           new == Written(terms[w.item], w.terms, Merged(w.terms, w.change))
<1>1. w \in Work /\ w.item \in Items /\ w.terms \in Terms /\ w.change \in Changes
      /\ terms[w.item] \in Terms
  BY DEF TypeOK, Work
<1>2. new \in Terms
  BY <1>1, MergedType, WrittenType
<1>3. terms' = IF Storable(new) THEN [terms EXCEPT ![w.item] = new] ELSE terms
  BY DEF Edit
<1> HIDE DEF new
<1>4. terms' \in [Items -> Terms]
  BY <1>1, <1>2, <1>3 DEF TypeOK
<1> QED BY <1>4, DoneType DEF Edit, TypeOK

LEMMA OrderType ==
    ASSUME TypeOK, NEW r \in Requests, NEW o \in Orders, PlaceOrder(r, o) PROVE TypeOK'
<1>1. [state |-> "unpaid", item |-> work[r].item, agreed |-> work[r].terms] \in Order
  BY DEF TypeOK, Work, Order, States
<1>2. orders' \in [Orders -> Order]
  BY <1>1 DEF PlaceOrder, TypeOK
<1> QED BY <1>2, DoneType DEF PlaceOrder, TypeOK

LEMMA StateType ==
    ASSUME TypeOK, NEW o \in Orders, NEW st \in States
    PROVE  [orders EXCEPT ![o].state = st] \in [Orders -> Order]
BY DEF TypeOK, Order

LEMMA TypeStep == TypeOK /\ [Next]_vars => TypeOK'
<1> SUFFICES ASSUME TypeOK, [Next]_vars PROVE TypeOK'
  OBVIOUS
<1>1. CASE \E i \in Items, t \in Terms : CreateListing(i, t)
  BY <1>1 DEF CreateListing, TypeOK
<1>2. CASE \E i \in Items, r \in Requests, op \in Ops, change \in Changes : Load(r, op, i, change)
  BY <1>2, LoadType
<1>3. CASE \E i \in Items : Restore(i)
  BY <1>3 DEF Restore, TypeOK
<1>4. ASSUME NEW r \in Requests, Check(r) \/ Edit(r) PROVE TypeOK'
  BY <1>4, CheckType, EditType
<1>5. ASSUME NEW r \in Requests, Archive(r) PROVE TypeOK'
  BY <1>5, DoneType DEF Archive, TypeOK
<1>6. ASSUME NEW r \in Requests, AddPhoto(r) PROVE TypeOK'
  <2>1. work[r].place \in Nat /\ work[r].item \in Items
    BY DEF TypeOK, Work
  <2>2. Append(photos[work[r].item], work[r].place) \in Seq(Nat)
    BY <2>1 DEF TypeOK
  <2>3. photos' = [photos EXCEPT ![work[r].item] = Append(photos[work[r].item], work[r].place)]
    BY <1>6 DEF AddPhoto
  <2>4. photos' \in [Items -> Seq(Nat)]
    BY <2>2, <2>3 DEF TypeOK
  <2> QED BY <1>6, <2>4, DoneType DEF AddPhoto, TypeOK
<1>7. ASSUME NEW r \in Requests, NEW o \in Orders, PlaceOrder(r, o) PROVE TypeOK'
  BY <1>7, OrderType
<1>8. ASSUME NEW o \in Orders, Pay(o) \/ Refund(o) PROVE TypeOK'
  BY <1>8, StateType DEF Pay, Refund, TypeOK, States
<1>9. CASE UNCHANGED vars
  BY <1>9 DEF vars, TypeOK
<1> QED BY <1>1, <1>2, <1>3, <1>4, <1>5, <1>6, <1>7, <1>8, <1>9 DEF Next

\* Every variable keeps its type (Listings).
THEOREM ListingTypes == Spec => []TypeOK
BY InitType, TypeStep, PTL DEF Spec

-----------------------------------------------------------------------------
(***************************************************************************)
(* What a request knows.                                                   *)
(***************************************************************************)
\* Only listed items are worked on and ordered.
Placed ==
    /\ \A r \in Requests : ~Idle(r) => work[r].item \in listed
    /\ \A o \in Orders : Open(o) => orders[o].item \in listed

\* While requests take turns, one is at work at most, and what it read stands.
Alone == \A q, r \in Requests : ~Idle(q) /\ ~Idle(r) => q = r

Read(r) ==
    /\ work[r].terms = terms[work[r].item]
    /\ work[r].archived = archived[work[r].item]

Decided(r) ==
    /\ work[r].op \in {"edit", "archive"} =>
         \A o \in Orders : Open(o) => orders[o].item # work[r].item
    /\ work[r].op = "edit" => Valid(Merged(work[r].terms, work[r].change))
    /\ work[r].op = "order" => ~work[r].archived

Known ==
    ~overlap =>
      /\ Alone
      /\ \A r \in Requests : ~Idle(r) => Read(r)
      /\ \A r \in Requests : work[r].step = "checked" => Decided(r)

ListingInv == TypeOK /\ Placed /\ Known /\ TermsStand /\ SerializedDecidable

\* An item whose status lets it be changed has no open order.
LEMMA UnpaidMeansFree ==
    ASSUME TypeOK, NEW i \in Items, NEW b \in BOOLEAN, ~RequireUnpaid(Status(StatesOf(i), b)),
           NEW o \in Orders, Open(o)
    PROVE  orders[o].item # i
<1> SUFFICES ASSUME orders[o].item = i PROVE FALSE
  OBVIOUS
<1>1. orders[o].state \in StatesOf(i)
  BY DEF StatesOf, Open
<1> QED BY <1>1 DEF Open, RequireUnpaid, Status, UNPAID_STATUSES, REFUNDED_STATUSES

LEMMA AllowedDecides ==
    ASSUME TypeOK, NEW r \in Requests, Allowed(work[r]) PROVE Decided(r)
<1>1. work[r].item \in Items /\ work[r].archived \in BOOLEAN /\ work[r].op \in Ops
  BY DEF TypeOK, Work
<1> DEFINE status == Status(StatesOf(work[r].item), work[r].archived)
<1>2. CASE work[r].op = "edit"
  <2>1. MayEdit(work[r], status)
    BY <1>2 DEF Allowed
  <2> QED BY <1>1, <1>2, <2>1, UnpaidMeansFree DEF MayEdit, Decided
<1>3. CASE work[r].op = "archive"
  <2>1. MayArchive(status)
    BY <1>3 DEF Allowed
  <2> QED BY <1>1, <1>3, <2>1, UnpaidMeansFree DEF MayArchive, Decided
<1>4. CASE work[r].op = "order"
  <2>1. MayOrder(work[r], status)
    BY <1>4 DEF Allowed
  <2> QED BY <1>4, <2>1 DEF MayOrder, Decided
<1>5. CASE work[r].op = "photo"
  BY <1>5 DEF Decided
<1> QED BY <1>1, <1>2, <1>3, <1>4, <1>5 DEF Ops

-----------------------------------------------------------------------------
(***************************************************************************)
(* Every step keeps the invariant.                                         *)
(***************************************************************************)
\* A request that ends leaves the others as they were.
LEMMA DoneLeaves ==
    ASSUME TypeOK, NEW r \in Requests, Done(r)
    PROVE  /\ work'[r] = NoWork /\ Idle(r)'
           /\ \A q \in Requests \ {r} : work'[q] = work[q]
BY DEF Done, TypeOK, Idle, NoWork

\* Nobody else is at work when a request of theirs is.
LEMMA OthersIdle ==
    ASSUME Known, ~overlap, NEW r \in Requests, ~Idle(r)
    PROVE  \A q \in Requests \ {r} : Idle(q)
BY DEF Known, Alone

LEMMA CreateStep ==
    ASSUME ListingInv, NEW i \in Items, NEW t \in Terms, CreateListing(i, t)
    PROVE  (Placed /\ Known /\ TermsStand /\ SerializedDecidable)'
<1>1. i \notin listed /\ listed' = listed \cup {i} /\ Valid(t)
  BY DEF CreateListing
<1>2. \A j \in Items \ {i} : terms'[j] = terms[j]
  BY DEF CreateListing, ListingInv, TypeOK
<1>3. terms'[i] = t
  BY DEF CreateListing, ListingInv, TypeOK
<1>4. UNCHANGED <<archived, orders, work, overlap>>
  BY DEF CreateListing
<1>5. \A r \in Requests : work[r].item \in Items
  BY DEF ListingInv, TypeOK, Work
<1>6. \A o \in Orders : orders[o].item \in Items
  BY DEF ListingInv, TypeOK, Order
<1>7. Placed'
  BY <1>1, <1>4 DEF ListingInv, Placed, Idle, Open
<1>8. ASSUME ~overlap' PROVE Known'
  <2>1. \A r \in Requests : ~Idle(r) => work[r].item # i /\ work[r].item \in Items
    BY <1>1, <1>5 DEF ListingInv, Placed
  <2>2. Alone'
    BY <1>4, <1>8 DEF ListingInv, Known, Alone, Idle
  <2>3. \A r \in Requests : ~Idle(r)' => Read(r)'
    BY <1>2, <1>4, <1>8, <2>1 DEF ListingInv, Known, Read, Idle
  <2>4. \A r \in Requests : work'[r].step = "checked" => Decided(r)'
    BY <1>4, <1>8 DEF ListingInv, Known, Decided, Open
  <2> QED BY <2>2, <2>3, <2>4 DEF Known
<1>9. TermsStand'
  BY <1>1, <1>2, <1>4, <1>6 DEF ListingInv, Placed, TermsStand, Open
<1>10. SerializedDecidable'
  BY <1>1, <1>2, <1>3, <1>4 DEF ListingInv, SerializedDecidable, TypeOK
<1> QED BY <1>7, <1>8, <1>9, <1>10 DEF Known

LEMMA LoadStep ==
    ASSUME ListingInv, NEW r \in Requests, NEW op \in Ops, NEW i \in Items,
           NEW change \in Changes, Load(r, op, i, change)
    PROVE  (Placed /\ Known /\ TermsStand /\ SerializedDecidable)'
<1> DEFINE w == [work[r] EXCEPT !.step = "loaded", !.op = op, !.item = i, !.change = change,
                                !.terms = terms[i], !.archived = archived[i]]
<1>1. work[r] \in Work
  BY DEF ListingInv, TypeOK
<1>2. w.step = "loaded" /\ w.item = i /\ w.terms = terms[i] /\ w.archived = archived[i]
  BY <1>1 DEF Work
<1>3. work' = [work EXCEPT ![r] = w]
  BY DEF Load
<1> HIDE DEF w
<1>4. work'[r] = w /\ \A q \in Requests \ {r} : work'[q] = work[q]
  BY <1>3 DEF ListingInv, TypeOK
<1>5. UNCHANGED <<listed, terms, archived, orders, overlap>>
  BY DEF Load
<1>6. i \in listed /\ (overlap \/ \A q \in Requests : Idle(q))
  BY DEF Load
<1>7. Placed'
  BY <1>2, <1>4, <1>5, <1>6 DEF ListingInv, Placed, Idle, Open
<1>8. ASSUME ~overlap' PROVE Known'
  <2>1. \A q \in Requests \ {r} : work'[q].step = "idle"
    BY <1>4, <1>5, <1>6, <1>8 DEF Idle
  <2>2. Read(r)' /\ work'[r].step = "loaded"
    BY <1>2, <1>4, <1>5 DEF Read
  <2> QED BY <2>1, <2>2 DEF Known, Alone, Idle
<1>9. (TermsStand /\ SerializedDecidable)'
  BY <1>5 DEF ListingInv, TermsStand, SerializedDecidable, Open
<1> QED BY <1>7, <1>8, <1>9 DEF Known

LEMMA CheckStep ==
    ASSUME ListingInv, NEW r \in Requests, Check(r)
    PROVE  (Placed /\ Known /\ TermsStand /\ SerializedDecidable)'
<1> DEFINE w == [work[r] EXCEPT !.step = "checked", !.place = Len(photos[work[r].item])]
<1>1. work[r] \in Work /\ work[r].step = "loaded"
  BY DEF ListingInv, TypeOK, Check
<1>2. /\ w.step = "checked" /\ w.op = work[r].op /\ w.item = work[r].item
      /\ w.change = work[r].change /\ w.terms = work[r].terms /\ w.archived = work[r].archived
  BY <1>1 DEF Work
<1>3. work' = [work EXCEPT ![r] = IF Allowed(work[r]) THEN w ELSE NoWork]
  BY DEF Check
<1> HIDE DEF w
<1>4. \A q \in Requests \ {r} : work'[q] = work[q]
  BY <1>3 DEF ListingInv, TypeOK
<1>5. (work'[r] = w /\ Allowed(work[r])) \/ work'[r].step = "idle"
  BY <1>3 DEF ListingInv, TypeOK, NoWork
<1>6. UNCHANGED <<listed, terms, archived, orders, overlap>>
  BY DEF Check
<1>7. ~Idle(r)
  BY <1>1 DEF Idle
<1>8. Placed'
  BY <1>2, <1>4, <1>5, <1>6, <1>7 DEF ListingInv, Placed, Idle, Open
<1>9. ASSUME ~overlap' PROVE Known'
  <2>1. \A q \in Requests \ {r} : work'[q].step = "idle"
    BY <1>4, <1>6, <1>7, <1>9, OthersIdle DEF ListingInv, Idle
  <2>2. ASSUME work'[r] = w, Allowed(work[r]) PROVE Read(r)' /\ Decided(r)'
    <3>1. Decided(r)
      BY <2>2, AllowedDecides DEF ListingInv
    <3>2. Read(r)
      BY <1>6, <1>7, <1>9 DEF ListingInv, Known
    <3> QED BY <1>2, <1>6, <2>2, <3>1, <3>2 DEF Read, Decided, Open
  <2> QED BY <1>5, <2>1, <2>2 DEF Known, Alone, Idle
<1>10. (TermsStand /\ SerializedDecidable)'
  BY <1>6 DEF ListingInv, TermsStand, SerializedDecidable, Open
<1> QED BY <1>8, <1>9, <1>10 DEF Known

\* Between requests there is nothing to know.
LEMMA EndKnown ==
    ASSUME ListingInv, NEW r \in Requests, ~Idle(r), Done(r), overlap' = overlap
    PROVE  Known'
<1> SUFFICES ASSUME ~overlap PROVE \A q \in Requests : work'[q].step = "idle"
  BY DEF Known, Alone, Idle
<1>1. work'[r].step = "idle" /\ \A q \in Requests \ {r} : work'[q] = work[q]
  BY DoneLeaves DEF ListingInv, Idle
<1>2. \A q \in Requests \ {r} : work[q].step = "idle"
  BY OthersIdle DEF ListingInv, Idle
<1> QED BY <1>1, <1>2

\* No row goes, so whatever is open or at work stays on a listed item.
LEMMA EndPlaced ==
    ASSUME ListingInv, NEW r \in Requests, Done(r), listed' = listed, orders' = orders
    PROVE  Placed'
<1>1. Idle(r)' /\ \A q \in Requests \ {r} : work'[q] = work[q]
  BY DoneLeaves DEF ListingInv
<1> QED BY <1>1 DEF ListingInv, Placed, Idle, Open

LEMMA EditStep ==
    ASSUME ListingInv, NEW r \in Requests, Edit(r)
    PROVE  (Placed /\ Known /\ TermsStand /\ SerializedDecidable)'
<1> DEFINE w   == work[r]
           i   == work[r].item
           new == Written(terms[i], w.terms, Merged(w.terms, w.change))
<1>1. w \in Work /\ i \in Items /\ w.terms \in Terms /\ w.change \in Changes
  BY DEF ListingInv, TypeOK, Work
<1>2. w.step = "checked" /\ w.op = "edit" /\ ~Idle(r) /\ Done(r)
  BY DEF Edit, Idle
<1>3. UNCHANGED <<listed, archived, orders, overlap>>
  BY DEF Edit
<1>4. terms' = IF Storable(new) THEN [terms EXCEPT ![i] = new] ELSE terms
  BY DEF Edit
<1>5. Placed' /\ Known'
  BY <1>2, <1>3, EndPlaced, EndKnown
<1>6. ASSUME ~overlap PROVE new = Merged(w.terms, w.change) /\ Valid(new) /\ Decided(r)
  <2>1. w.terms = terms[i] /\ Decided(r)
    BY <1>2, <1>6 DEF ListingInv, Known, Read
  <2>2. Merged(w.terms, w.change) \in Terms
    BY <1>1, MergedType
  <2>3. new = Merged(w.terms, w.change)
    BY <1>1, <2>1, <2>2, WrittenAlone
  <2> QED BY <1>2, <2>1, <2>3 DEF Decided
<1> HIDE DEF new
<1>7. \A j \in Items \ {i} : terms'[j] = terms[j]
  BY <1>4 DEF ListingInv, TypeOK
<1>8. terms'[i] = new \/ terms'[i] = terms[i]
  BY <1>1, <1>4 DEF ListingInv, TypeOK
<1>9. TermsStand'
  <2> SUFFICES ASSUME ~overlap, NEW o \in Orders, Open(o)
               PROVE  terms'[orders[o].item] = orders[o].agreed /\ ~archived[orders[o].item]
    BY <1>3 DEF TermsStand, Open
  <2>1. orders[o].item \in Items \ {i}
    BY <1>2, <1>6 DEF Decided, ListingInv, TypeOK, Order
  <2> QED BY <1>7, <2>1 DEF ListingInv, TermsStand
<1>10. SerializedDecidable'
  BY <1>3, <1>6, <1>7, <1>8 DEF ListingInv, SerializedDecidable, TypeOK
<1> QED BY <1>5, <1>9, <1>10

LEMMA ArchiveStep ==
    ASSUME ListingInv, NEW r \in Requests, Archive(r)
    PROVE  (Placed /\ Known /\ TermsStand /\ SerializedDecidable)'
<1> DEFINE i == work[r].item
<1>1. work[r].step = "checked" /\ work[r].op = "archive" /\ ~Idle(r) /\ Done(r)
  BY DEF Archive, Idle
<1>2. UNCHANGED <<listed, terms, orders, overlap>>
  BY DEF Archive
<1>3. Placed' /\ Known'
  BY <1>1, <1>2, EndPlaced, EndKnown
<1>4. \A j \in Items \ {i} : archived'[j] = archived[j]
  BY DEF Archive, ListingInv, TypeOK
<1>5. TermsStand'
  <2> SUFFICES ASSUME ~overlap, NEW o \in Orders, Open(o)
               PROVE  terms[orders[o].item] = orders[o].agreed /\ ~archived'[orders[o].item]
    BY <1>2 DEF TermsStand, Open
  <2>1. Decided(r)
    BY <1>1 DEF ListingInv, Known
  <2>2. orders[o].item \in Items \ {i}
    BY <1>1, <2>1 DEF Decided, ListingInv, TypeOK, Order
  <2> QED BY <1>4, <2>2 DEF ListingInv, TermsStand
<1>6. SerializedDecidable'
  BY <1>2 DEF ListingInv, SerializedDecidable
<1> QED BY <1>3, <1>5, <1>6

LEMMA OrderStep ==
    ASSUME ListingInv, NEW r \in Requests, NEW o \in Orders, PlaceOrder(r, o)
    PROVE  (Placed /\ Known /\ TermsStand /\ SerializedDecidable)'
<1> DEFINE new == [state |-> "unpaid", item |-> work[r].item, agreed |-> work[r].terms]
<1>1. work[r].step = "checked" /\ work[r].op = "order" /\ ~Idle(r) /\ Done(r)
  BY DEF PlaceOrder, Idle
<1>2. UNCHANGED <<listed, terms, archived, overlap>>
  BY DEF PlaceOrder
<1>3. orders'[o] = new /\ \A p \in Orders \ {o} : orders'[p] = orders[p]
  BY DEF PlaceOrder, ListingInv, TypeOK
<1>4. Known'
  BY <1>1, <1>2, EndKnown
<1>5. Idle(r)' /\ \A q \in Requests \ {r} : work'[q] = work[q]
  BY <1>1, DoneLeaves DEF ListingInv
<1>6. Placed'
  <2>1. \A q \in Requests : ~Idle(q)' => work'[q].item \in listed'
    BY <1>2, <1>5 DEF ListingInv, Placed, Idle
  <2>2. \A p \in Orders : Open(p)' => orders'[p].item \in listed'
    BY <1>1, <1>2, <1>3 DEF ListingInv, Placed, Open
  <2> QED BY <2>1, <2>2 DEF Placed
<1>7. TermsStand'
  <2> SUFFICES ASSUME ~overlap, NEW p \in Orders, Open(p)'
               PROVE  /\ terms[orders'[p].item] = orders'[p].agreed
                      /\ ~archived[orders'[p].item]
    BY <1>2 DEF TermsStand
  <2>1. CASE p = o
    <3>1. Read(r) /\ Decided(r)
      BY <1>1 DEF ListingInv, Known
    <3> QED BY <1>1, <1>3, <2>1, <3>1 DEF Read, Decided
  <2>2. CASE p # o
    BY <1>3, <2>2 DEF ListingInv, TermsStand, Open
  <2> QED BY <2>1, <2>2
<1>8. SerializedDecidable'
  BY <1>2 DEF ListingInv, SerializedDecidable
<1> QED BY <1>4, <1>6, <1>7, <1>8

LEMMA RestoreStep ==
    ASSUME ListingInv, NEW i \in Items, Restore(i)
    PROVE  (Placed /\ Known /\ TermsStand /\ SerializedDecidable)'
<1>1. UNCHANGED <<listed, terms, orders, work, overlap>>
  BY DEF Restore
<1>2. overlap \/ \A q \in Requests : work[q].step = "idle"
  BY DEF Restore, Idle
<1>3. \A j \in Items : archived'[j] => archived[j]
  BY DEF Restore, ListingInv, TypeOK
<1>4. Placed'
  BY <1>1 DEF ListingInv, Placed, Idle, Open
<1>5. Known'
  BY <1>1, <1>2 DEF Known, Alone, Idle
<1>6. TermsStand'
  <2> SUFFICES ASSUME ~overlap, NEW o \in Orders, Open(o)
               PROVE  terms[orders[o].item] = orders[o].agreed /\ ~archived'[orders[o].item]
    BY <1>1 DEF TermsStand, Open
  <2>1. orders[o].item \in Items
    BY DEF ListingInv, TypeOK, Order
  <2> QED BY <1>3, <2>1 DEF ListingInv, TermsStand
<1>7. SerializedDecidable'
  BY <1>1 DEF ListingInv, SerializedDecidable
<1> QED BY <1>4, <1>5, <1>6, <1>7

\* Paying and refunding open no order.
LEMMA MoneyStep ==
    ASSUME ListingInv, NEW o \in Orders, Pay(o) \/ Refund(o)
    PROVE  (Placed /\ Known /\ TermsStand /\ SerializedDecidable)'
<1>1. UNCHANGED <<listed, terms, archived, work, overlap>>
  BY DEF Pay, Refund
<1>2. \A p \in Orders : /\ orders'[p].item = orders[p].item
                        /\ orders'[p].agreed = orders[p].agreed
                        /\ Open(p)' => Open(p)
  <2> SUFFICES ASSUME NEW p \in Orders
               PROVE  /\ orders'[p].item = orders[p].item
                      /\ orders'[p].agreed = orders[p].agreed
                      /\ Open(p)' => Open(p)
    OBVIOUS
  <2>1. orders \in [Orders -> Order]
    BY DEF ListingInv, TypeOK
  <2>2. PICK st \in States : /\ orders' = [orders EXCEPT ![o].state = st]
                             /\ st \in {"unpaid", "paid"} => Open(o)
    BY DEF Pay, Refund, States, Open
  <2>3. CASE p = o
    <3>1. orders'[o] = [orders[o] EXCEPT !.state = st]
      BY <2>1, <2>2
    <3>2. orders[o] \in [state: States, item: Items, agreed: Terms]
      BY <2>1 DEF Order
    <3> HIDE DEF States, Terms
    <3>3. /\ orders'[o].item = orders[o].item
          /\ orders'[o].agreed = orders[o].agreed
          /\ orders'[o].state = st
      BY <3>1, <3>2
    <3> QED BY <2>2, <2>3, <3>3 DEF Open
  <2>4. CASE p # o
    <3>1. orders'[p] = orders[p]
      BY <2>1, <2>2, <2>4
    <3> QED BY <3>1 DEF Open
  <2> QED BY <2>3, <2>4
<1>3. Placed'
  BY <1>1, <1>2 DEF ListingInv, Placed, Idle
<1>4. ASSUME ~overlap' PROVE Known'
  <2>1. Alone' /\ \A r \in Requests : ~Idle(r)' => Read(r)'
    BY <1>1, <1>4 DEF ListingInv, Known, Alone, Read, Idle
  <2>2. \A r \in Requests : work'[r].step = "checked" => Decided(r)'
    BY <1>1, <1>2, <1>4 DEF ListingInv, Known, Decided
  <2> QED BY <2>1, <2>2 DEF Known
<1>5. TermsStand'
  BY <1>1, <1>2 DEF ListingInv, TermsStand
<1>6. SerializedDecidable'
  BY <1>1 DEF ListingInv, SerializedDecidable
<1> QED BY <1>3, <1>4, <1>5, <1>6 DEF Known

LEMMA ListingInit == Init => ListingInv
<1> SUFFICES ASSUME Init PROVE ListingInv
  OBVIOUS
<1>1. TypeOK
  BY InitType
<1>2. /\ \A r \in Requests : work[r].step = "idle"
      /\ \A o \in Orders : orders[o].state = "none"
      /\ listed = {}
  BY DEF Init, NoWork, NoOrder
<1>3. Placed /\ TermsStand /\ SerializedDecidable
  BY <1>2 DEF Placed, TermsStand, SerializedDecidable, Idle, Open
<1>4. Known
  BY <1>2 DEF Known, Alone, Idle
<1> QED BY <1>1, <1>3, <1>4 DEF ListingInv

LEMMA ListingStep == ListingInv /\ [Next]_vars => ListingInv'
<1> SUFFICES ASSUME ListingInv, [Next]_vars
             PROVE  (Placed /\ Known /\ TermsStand /\ SerializedDecidable)'
  BY TypeStep DEF ListingInv
<1>1. CASE \E i \in Items, t \in Terms : CreateListing(i, t)
  BY <1>1, CreateStep
<1>2. CASE \E i \in Items, r \in Requests, op \in Ops, change \in Changes : Load(r, op, i, change)
  BY <1>2, LoadStep
<1>3. CASE \E i \in Items : Restore(i)
  BY <1>3, RestoreStep
<1>4. CASE \E r \in Requests : Check(r)
  BY <1>4, CheckStep
<1>5. CASE \E r \in Requests : Edit(r)
  BY <1>5, EditStep
<1>6. CASE \E r \in Requests : Archive(r)
  BY <1>6, ArchiveStep
<1>7. ASSUME NEW r \in Requests, AddPhoto(r)
      PROVE  (Placed /\ Known /\ TermsStand /\ SerializedDecidable)'
  <2>1. ~Idle(r) /\ Done(r) /\ UNCHANGED <<listed, terms, archived, orders, overlap>>
    BY <1>7 DEF AddPhoto, Idle
  <2>2. Placed' /\ Known'
    BY <2>1, EndPlaced, EndKnown
  <2> QED BY <2>1, <2>2 DEF ListingInv, TermsStand, SerializedDecidable, Open
<1>8. CASE \E r \in Requests, o \in Orders : PlaceOrder(r, o)
  BY <1>8, OrderStep
<1>9. CASE \E o \in Orders : Pay(o) \/ Refund(o)
  BY <1>9, MoneyStep
<1>10. CASE UNCHANGED vars
  BY <1>10 DEF vars, ListingInv, Placed, Known, Alone, Read, Decided, TermsStand,
     SerializedDecidable, Idle, Open
<1> QED BY <1>1, <1>2, <1>3, <1>4, <1>5, <1>6, <1>7, <1>8, <1>9, <1>10 DEF Next

\* Whatever sellers and buyers do in turn, an item with an open order keeps the
\* terms the order was placed under and is not archived (_require_unpaid,
\* create_transaction).
THEOREM OpenOrdersKeepTerms == Spec => []TermsStand
<1>1. ListingInv => TermsStand
  BY DEF ListingInv
<1> QED BY ListingInit, ListingStep, <1>1, PTL DEF Spec

\* However edits done in turn are combined, a serialized item has a unique_id
\* and a policy that names a resolution (_validate_serialized_listing).
THEOREM SerializedItemsDecidable == Spec => []SerializedDecidable
<1>1. ListingInv => SerializedDecidable
  BY DEF ListingInv
<1> QED BY ListingInit, ListingStep, <1>1, PTL DEF Spec
-----------------------------------------------------------------------------
(***************************************************************************)
(* The photos: an upload that was let in takes its place in advance.       *)
(***************************************************************************)
Uploads(i) == {r \in Requests :
    work[r].step = "checked" /\ work[r].op = "photo" /\ work[r].item = i}

\* How many uploads may be let in before the first of them is stored.
AtOnce == IF overlap THEN Cardinality(Requests) ELSE 1

\* Photos and uploads let in stay within the limit, but for those that were let
\* in together; the first photo was let in when there was none.
RoomKept == \A i \in Items : Len(photos[i]) + Cardinality(Uploads(i)) <= PhotoLimit + AtOnce - 1

CoverFirst == \A i \in Items :
    /\ photos[i] # <<>> => photos[i][1] = 0
    /\ photos[i] = <<>> => \A r \in Uploads(i) : work[r].place = 0

PhotoInv == ListingInv /\ RoomKept /\ CoverFirst

LEMMA SomeUploads ==
    ASSUME NEW U, U \subseteq Requests
    PROVE  /\ IsFiniteSet(U) /\ Cardinality(U) \in Nat /\ Cardinality(Requests) \in Nat
           /\ Cardinality(U) <= Cardinality(Requests)
BY ListingsAssumption, FS_Subset, FS_CardinalityType

LEMMA FewerUploads ==
    ASSUME NEW U, U \subseteq Requests, NEW V, V \subseteq U
    PROVE  Cardinality(V) <= Cardinality(U)
BY SomeUploads, FS_Subset

\* What Append leaves at the front.
LEMMA AppendFirst ==
    ASSUME NEW s \in Seq(Nat), NEW n \in Nat
    PROVE  /\ Append(s, n) # <<>> /\ Len(Append(s, n)) = Len(s) + 1
           /\ Append(s, n)[1] = IF s = <<>> THEN n ELSE s[1]
<1>1. Append(s, n) # <<>> /\ Len(Append(s, n)) = Len(s) + 1
  OBVIOUS
<1>2. CASE s = <<>>
  BY <1>1, <1>2
<1>3. CASE s # <<>>
  <2>1. Len(s) \in Nat /\ Len(s) # 0
    BY <1>3
  <2>2. 1 \in 1..Len(s)
    BY <2>1
  <2>3. Append(s, n)[1] = s[1]
    BY <2>2
  <2> QED BY <1>1, <1>3, <2>3
<1> QED BY <1>2, <1>3

\* What the invariant counts is numbers.
LEMMA PhotoTypes ==
    ASSUME PhotoInv, NEW i \in Items
    PROVE  /\ photos[i] \in Seq(Nat) /\ Len(photos[i]) \in Nat
           /\ PhotoLimit \in Nat /\ AtOnce \in Nat
           /\ Cardinality(Uploads(i)) \in Nat /\ IsFiniteSet(Uploads(i))
<1>1. photos[i] \in Seq(Nat)
  BY DEF PhotoInv, ListingInv, TypeOK
<1>2. Uploads(i) \subseteq Requests
  BY DEF Uploads
<1>3. Cardinality(Uploads(i)) \in Nat /\ IsFiniteSet(Uploads(i))
  BY <1>2, SomeUploads
<1>4. AtOnce \in Nat /\ PhotoLimit \in Nat
  BY SomeUploads, ListingsAssumption DEF AtOnce
<1> QED BY <1>1, <1>3, <1>4

\* A step that stores no photo and lets no upload in.
LEMMA NoUpload ==
    ASSUME PhotoInv, UNCHANGED <<photos, overlap>>,
           \A i \in Items : \A r \in Requests :
               r \in Uploads(i)' => r \in Uploads(i) /\ work'[r].place = work[r].place
    PROVE  RoomKept' /\ CoverFirst'
<1>1. \A i \in Items : Uploads(i)' \subseteq Uploads(i) /\ Uploads(i) \subseteq Requests
  BY DEF Uploads
<1>2. ASSUME NEW i \in Items
      PROVE  Len(photos[i]) + Cardinality(Uploads(i)') <= PhotoLimit + AtOnce - 1
  <2>1. Len(photos[i]) + Cardinality(Uploads(i)) <= PhotoLimit + AtOnce - 1
    BY DEF PhotoInv, RoomKept
  <2>2. /\ Cardinality(Uploads(i)') <= Cardinality(Uploads(i))
        /\ Cardinality(Uploads(i)') \in Nat
    <3>1. Uploads(i)' \subseteq Uploads(i) /\ Uploads(i)' \subseteq Requests
          /\ Uploads(i) \subseteq Requests
      BY <1>1
    <3> QED BY <3>1, FewerUploads, SomeUploads
  <2> QED BY <2>1, <2>2, PhotoTypes
<1>3. RoomKept'
  BY <1>2 DEF RoomKept, AtOnce
<1>4. CoverFirst'
  BY <1>1 DEF PhotoInv, CoverFirst
<1> QED BY <1>3, <1>4

\* A session between requests, or at another request, has no upload.
LEMMA OtherWork ==
    ASSUME PhotoInv, UNCHANGED <<photos, overlap>>,
           \A r \in Requests :
               \/ work'[r] = work[r]
               \/ work'[r].step # "checked" \/ work'[r].op # "photo"
    PROVE  RoomKept' /\ CoverFirst'
BY NoUpload DEF Uploads

LEMMA CheckPhotos ==
    ASSUME PhotoInv, NEW r \in Requests, Check(r)
    PROVE  RoomKept' /\ CoverFirst'
<1> DEFINE w == [work[r] EXCEPT !.step = "checked", !.place = Len(photos[work[r].item])]
<1>1. /\ work[r] \in Work /\ work[r].step = "loaded" /\ work \in [Requests -> Work]
      /\ work[r].item \in Items
  BY DEF PhotoInv, ListingInv, TypeOK, Check, Work
<1>2. /\ w.step = "checked" /\ w.op = work[r].op /\ w.item = work[r].item
      /\ w.place = Len(photos[work[r].item])
  BY <1>1 DEF Work
<1>3. work' = [work EXCEPT ![r] = IF Allowed(work[r]) THEN w ELSE NoWork]
      /\ UNCHANGED <<photos, overlap>>
  BY DEF Check
<1> HIDE DEF w
<1>4. /\ \A q \in Requests \ {r} : work'[q] = work[q]
      /\ work'[r] = IF Allowed(work[r]) THEN w ELSE NoWork
  BY <1>1, <1>3
<1>5. CASE ~(Allowed(work[r]) /\ work[r].op = "photo")
  <2>1. work'[r].step # "checked" \/ work'[r].op # "photo"
    BY <1>2, <1>4, <1>5 DEF NoWork
  <2> QED BY <1>3, <1>4, <2>1, OtherWork
<1>6. CASE Allowed(work[r]) /\ work[r].op = "photo"
  <2>1. Len(photos[work[r].item]) < PhotoLimit
    <3>1. RoomForPhoto(work[r].item)
      BY <1>6 DEF Allowed
    <3> QED BY <3>1 DEF RoomForPhoto
  <2>2. ASSUME NEW i \in Items
        PROVE  Uploads(i)' = IF i = work[r].item THEN Uploads(i) \cup {r} ELSE Uploads(i)
    <3>1. r \in Uploads(i)' <=> i = work[r].item
      BY <1>2, <1>4, <1>6 DEF Uploads
    <3>2. \A q \in Requests \ {r} : q \in Uploads(i)' <=> q \in Uploads(i)
      BY <1>4 DEF Uploads
    <3>3. r \notin Uploads(i) /\ Uploads(i) \subseteq Requests /\ Uploads(i)' \subseteq Requests
      BY <1>1 DEF Uploads
    <3> QED BY <3>1, <3>2, <3>3
  <2>3. RoomKept'
    <3> SUFFICES ASSUME NEW i \in Items
                 PROVE  Len(photos[i]) + Cardinality(Uploads(i)') <= PhotoLimit + AtOnce - 1
      BY <1>3 DEF RoomKept, AtOnce
    <3>1. CASE i # work[r].item
      BY <2>2, <3>1 DEF PhotoInv, RoomKept
    <3>2. CASE i = work[r].item
      <4>1. Cardinality(Uploads(i)') \in Nat /\ Cardinality(Uploads(i)') <= AtOnce
        <5>1. Uploads(i)' \subseteq Requests
          BY DEF Uploads
        <5>2. CASE overlap
          BY <5>1, <5>2, SomeUploads DEF AtOnce
        <5>3. CASE ~overlap
          <6>1. \A q \in Requests \ {r} : work[q].step = "idle"
            BY <1>1, <5>3, OthersIdle DEF PhotoInv, ListingInv, Idle
          <6>2. Uploads(i) = {}
            BY <1>1, <6>1 DEF Uploads
          <6>3. Uploads(i)' = {r}
            BY <2>2, <3>2, <6>2
          <6>4. Cardinality({r}) = 1
            BY FS_Singleton
          <6>5. Cardinality(Uploads(i)') = 1
            BY <6>3, <6>4
          <6>6. AtOnce = 1
            BY <5>3 DEF AtOnce
          <6> HIDE DEF AtOnce, Uploads
          <6> QED BY ONLY <6>5, <6>6
        <5> QED BY <5>2, <5>3
      <4> QED BY <2>1, <3>2, <4>1, PhotoTypes
    <3> QED BY <3>1, <3>2
  <2>4. CoverFirst'
    <3> SUFFICES ASSUME NEW i \in Items
                 PROVE  /\ photos[i] # <<>> => photos[i][1] = 0
                        /\ photos[i] = <<>> => \A q \in Uploads(i)' : work'[q].place = 0
      BY <1>3 DEF CoverFirst
    <3>1. photos[i] # <<>> => photos[i][1] = 0
      BY DEF PhotoInv, CoverFirst
    <3>2. ASSUME photos[i] = <<>>, NEW q \in Uploads(i)' PROVE work'[q].place = 0
      <4>1. CASE q = r
        <5>1. i = work[r].item
          BY <1>2, <1>4, <1>6, <3>2, <4>1 DEF Uploads
        <5> QED BY <1>2, <1>4, <1>6, <3>2, <4>1, <5>1
      <4>2. CASE q # r
        <5>1. q \in Uploads(i) /\ q \in Requests
          BY <2>2, <3>2, <4>2 DEF Uploads
        <5> QED BY <1>4, <3>2, <4>2, <5>1 DEF PhotoInv, CoverFirst
      <4> QED BY <4>1, <4>2
    <3> QED BY <3>1, <3>2
  <2> QED BY <2>3, <2>4
<1> QED BY <1>5, <1>6

LEMMA AddPhotoStep ==
    ASSUME PhotoInv, NEW r \in Requests, AddPhoto(r)
    PROVE  RoomKept' /\ CoverFirst'
<1> DEFINE i == work[r].item
           n == work[r].place
<1>1. /\ i \in Items /\ n \in Nat /\ r \in Uploads(i) /\ UNCHANGED overlap
      /\ photos' = [photos EXCEPT ![i] = Append(photos[i], n)]
  BY DEF AddPhoto, Uploads, PhotoInv, ListingInv, TypeOK, Work
<1>2. /\ photos'[i] = Append(photos[i], n) /\ photos[i] \in Seq(Nat)
      /\ \A j \in Items : j # i => photos'[j] = photos[j]
  BY <1>1 DEF PhotoInv, ListingInv, TypeOK
<1>3. work'[r].step # "checked" /\ \A q \in Requests \ {r} : work'[q] = work[q]
  BY DoneLeaves DEF AddPhoto, PhotoInv, ListingInv, Idle
<1>4. ASSUME NEW j \in Items
      PROVE  Uploads(j)' = Uploads(j) \ {r} /\ (j # i => Uploads(j)' = Uploads(j))
  <2>1. /\ r \notin Uploads(j)' /\ Uploads(j) \subseteq Requests /\ Uploads(j)' \subseteq Requests
        /\ \A q \in Requests \ {r} : q \in Uploads(j)' <=> q \in Uploads(j)
        /\ j # i => r \notin Uploads(j)
    BY <1>3 DEF Uploads
  <2> QED BY <2>1
<1>5. RoomKept'
  <2> SUFFICES ASSUME NEW j \in Items
               PROVE  Len(photos'[j]) + Cardinality(Uploads(j)') <= PhotoLimit + AtOnce - 1
    BY <1>1 DEF RoomKept, AtOnce
  <2>1. CASE j # i
    BY <1>2, <1>4, <2>1 DEF PhotoInv, RoomKept
  <2>2. CASE j = i
    <3>1. Cardinality(Uploads(j)') = Cardinality(Uploads(j)) - 1
      BY <1>1, <1>4, <2>2, PhotoTypes, FS_RemoveElement
    <3>2. Len(photos'[j]) = Len(photos[j]) + 1
      BY <1>1, <1>2, <2>2, AppendFirst
    <3>3. Len(photos[j]) + Cardinality(Uploads(j)) <= PhotoLimit + AtOnce - 1
      BY DEF PhotoInv, RoomKept
    <3> QED BY <3>1, <3>2, <3>3, PhotoTypes
  <2> QED BY <2>1, <2>2
<1>6. CoverFirst'
  <2> SUFFICES ASSUME NEW j \in Items
               PROVE  /\ photos'[j] # <<>> => photos'[j][1] = 0
                      /\ photos'[j] = <<>> => \A q \in Uploads(j)' : work'[q].place = 0
    BY DEF CoverFirst
  <2>1. CASE j # i
    <3>1. photos'[j] = photos[j] /\ Uploads(j)' = Uploads(j)
      BY <1>2, <1>4, <2>1
    <3>2. \A q \in Uploads(j) : work'[q] = work[q]
      BY <1>3, <1>4, <2>1 DEF Uploads
    <3> QED BY <3>1, <3>2 DEF PhotoInv, CoverFirst
  <2>2. CASE j = i
    <3>1. photos[i] = <<>> => n = 0
      BY <1>1 DEF PhotoInv, CoverFirst
    <3>2. photos[i] # <<>> => photos[i][1] = 0
      BY <1>1 DEF PhotoInv, CoverFirst
    <3> HIDE DEF i, n
    <3> QED BY <1>1, <1>2, <2>2, <3>1, <3>2, AppendFirst
  <2> QED BY <2>1, <2>2
<1> QED BY <1>5, <1>6

LEMMA PhotoInit == Init => PhotoInv
<1> SUFFICES ASSUME Init PROVE PhotoInv
  OBVIOUS
<1>1. \A i \in Items : photos[i] = <<>> /\ Uploads(i) = {}
  BY DEF Init, Uploads, NoWork
<1>2. Cardinality(Requests) \in Nat /\ PhotoLimit \in Nat \ {0}
  BY SomeUploads, ListingsAssumption
<1>3. RoomKept
  <2> SUFFICES ASSUME NEW i \in Items
               PROVE  Len(photos[i]) + Cardinality(Uploads(i)) <= PhotoLimit + AtOnce - 1
    BY DEF RoomKept
  <2>1. Cardinality({}) = 0
    BY FS_EmptySet
  <2>2. Len(photos[i]) = 0 /\ Cardinality(Uploads(i)) = 0
    BY <1>1, <2>1
  <2>3. AtOnce \in Nat
    BY <1>2 DEF AtOnce
  <2> QED BY <1>2, <2>2, <2>3
<1>4. CoverFirst
  BY <1>1 DEF CoverFirst
<1> QED BY <1>3, <1>4, ListingInit DEF PhotoInv

LEMMA PhotoStep == PhotoInv /\ [Next]_vars => PhotoInv'
<1> SUFFICES ASSUME PhotoInv, [Next]_vars PROVE RoomKept' /\ CoverFirst'
  BY ListingStep DEF PhotoInv
<1>1. ASSUME NEW r \in Requests, Done(r), UNCHANGED <<photos, overlap>>
      PROVE  RoomKept' /\ CoverFirst'
  <2>1. work'[r].step # "checked" /\ \A q \in Requests \ {r} : work'[q] = work[q]
    BY <1>1, DoneLeaves DEF PhotoInv, ListingInv, Idle
  <2> QED BY <1>1, <2>1, OtherWork
<1>2. ASSUME UNCHANGED <<work, photos, overlap>> PROVE RoomKept' /\ CoverFirst'
  BY <1>2, OtherWork
<1>3. ASSUME NEW i \in Items, (\E t \in Terms : CreateListing(i, t)) \/ Restore(i)
      PROVE  RoomKept' /\ CoverFirst'
  BY <1>2, <1>3 DEF CreateListing, Restore
<1>4. ASSUME NEW i \in Items, NEW r \in Requests, NEW op \in Ops, NEW change \in Changes,
             Load(r, op, i, change)
      PROVE  RoomKept' /\ CoverFirst'
  <2>1. work'[r].step = "loaded" /\ \A q \in Requests \ {r} : work'[q] = work[q]
    BY <1>4 DEF Load, PhotoInv, ListingInv, TypeOK, Work
  <2> QED BY <1>4, <2>1, OtherWork DEF Load
<1>5. ASSUME NEW r \in Requests, Edit(r) \/ Archive(r) \/ \E o \in Orders : PlaceOrder(r, o)
      PROVE  RoomKept' /\ CoverFirst'
  BY <1>1, <1>5 DEF Edit, Archive, PlaceOrder
<1>6. ASSUME NEW r \in Requests, Check(r) \/ AddPhoto(r) PROVE RoomKept' /\ CoverFirst'
  BY <1>6, CheckPhotos, AddPhotoStep
<1>7. ASSUME NEW o \in Orders, Pay(o) \/ Refund(o) PROVE RoomKept' /\ CoverFirst'
  BY <1>2, <1>7 DEF Pay, Refund
<1>8. CASE UNCHANGED vars
  BY <1>2, <1>8 DEF vars
<1> QED BY <1>3, <1>4, <1>5, <1>6, <1>7, <1>8 DEF Next

\* An item has at most MAX_PHOTOS photos, and one more for each upload that
\* overlapped the last, and the first of them is its cover (add_listing_photo
\* counts the photos it finds and takes that number as the place).
THEOREM PhotosCorrect == Spec => []PhotosWithinLimit
<1>1. PhotoInv => PhotosWithinLimit
  <2> SUFFICES ASSUME PhotoInv, NEW i \in Items
               PROVE  /\ photos[i] # <<>> => photos[i][1] = 0
                      /\ Len(photos[i]) <= PhotoLimit + (IF overlap THEN Cardinality(Requests) - 1 ELSE 0)
    BY DEF PhotosWithinLimit
  <2>1. photos[i] # <<>> => photos[i][1] = 0
    BY DEF PhotoInv, CoverFirst
  <2>2. Len(photos[i]) + Cardinality(Uploads(i)) <= PhotoLimit + AtOnce - 1
    BY DEF PhotoInv, RoomKept
  <2>3. Len(photos[i]) <= PhotoLimit + AtOnce - 1
    BY <2>2, PhotoTypes
  <2>4. Cardinality(Requests) \in Nat
    BY SomeUploads
  <2> QED BY <2>1, <2>3, <2>4, PhotoTypes DEF AtOnce
<1> QED BY <1>1, PhotoInit, PhotoStep, PTL DEF Spec
=============================================================================
