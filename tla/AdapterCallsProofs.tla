-------------------------- MODULE AdapterCallsProofs --------------------------
(***************************************************************************)
(* Proofs about AdapterCalls: for any number of calls, of any methods of   *)
(* any adapter, under any options and identities.                          *)
(*                                                                         *)
(* A call shares with others its Auditor, the transaction and the counter, *)
(* so an invariant of single calls carries most of it: the rows of a call  *)
(* are those its place in runAudited says, and its change is in the        *)
(* transaction's hands exactly while that is open.                         *)
(***************************************************************************)
EXTENDS AdapterCalls, SequenceTheorems, TLAPS

Underway == {"auditor", "bare", "running", "listing"}

Fields == {"surface", "name", "class", "args", "identity", "first", "last"}

TypeOK == /\ pc \in [Calls -> {"new", "ended"} \cup Underway]
          /\ effect \in [Calls -> {"none", "open", "kept", "undone"}]
          /\ outcome \in [Calls -> {"none", "value", "error", "refused", "audit error"}]
          /\ items \in [Calls -> Nat]
          /\ tx \in {"none", "open", "committed", "rolled back"}
          /\ DOMAIN call = Calls /\ DOMAIN rows = Calls
          /\ \A c \in Calls : DOMAIN call[c] = Fields

(* Before its end a call has the rows that its place in runAudited says. *)
RowsFollow(c) ==
    /\ pc[c] = "auditor" => call[c].class \notin {Skip, Refused}
    /\ pc[c] = "bare"    => call[c].class = Skip
    /\ pc[c] = "listing" => IsListing(c)
    /\ pc[c] \in {"new", "auditor", "bare"} => rows[c] = <<>>
    /\ pc[c] \in {"running", "listing"} => rows[c] = <<Intent(call[c])>>
    /\ pc[c] \notin {"listing", "ended"} => items[c] = 0
    /\ pc[c] \in {"new", "auditor", "listing"} => effect[c] = "none"

(* At its end it has those that its outcome says. *)
RowsConclude(c) ==
    pc[c] = "ended" /\ call[c].class # Skip =>
       \/ outcome[c] = "value" /\ rows[c] = <<Intent(call[c]), Row(call[c], "result", "ok", items[c])>>
       \/ outcome[c] = "error" /\ rows[c] = <<Intent(call[c]), Result(call[c], "error")>>
       \/ /\ outcome[c] = "refused" /\ effect[c] = "none"
          /\ rows[c] \in {<<>>, <<Intent(call[c]), Result(call[c], "validation_error")>>}
       \/ /\ outcome[c] = "audit error"
          /\ \E y : rows[c] \in {<<>>, <<Intent(call[c])>>, <<Intent(call[c]), y>>}

(* A change is in the transaction's hands, or has the fate of it. *)
Kept(c) ==
    /\ InTransaction(c) /\ pc[c] \in Underway => tx = "open"
    /\ effect[c] = "open"   => InTransaction(c) /\ tx = "open"
    /\ effect[c] = "undone" => InTransaction(c) /\ tx = "rolled back"
    /\ effect[c] = "kept" /\ InTransaction(c) => tx = "committed"
    /\ \A i \in DOMAIN rows[c] : rows[c][i].status = "ok" /\ Changes(c) => effect[c] # "none"

Sound(c) == RowsFollow(c) /\ RowsConclude(c) /\ Kept(c)
CallsInv == TypeOK /\ \A c \in Calls : Sound(c)

-------------------------------------------------------------------------------
(* Short sequences, as Record and RecordFails put them together. *)
LEMMA ShortRows ==
  ASSUME NEW x, NEW y
  PROVE  /\ <<>> \o <<x>> = <<x>> /\ <<x>> \o <<y>> = <<x, y>> /\ <<>> \o <<x, y>> = <<x, y>>
         /\ \A k \in 0 .. Len(<<x>>) : SubSeq(<<x>>, 1, k) \in {<<>>, <<x>>}
         /\ \A k \in 0 .. Len(<<x, y>>) : SubSeq(<<x, y>>, 1, k) \in {<<>>, <<x>>, <<x, y>>}
         /\ <<x>> \o <<>> = <<x>> /\ <<>> \o <<>> = <<>>
<1> DEFINE S == {x, y}
<1>1. <<>> \in Seq(S) /\ <<x>> \in Seq(S) /\ <<y>> \in Seq(S) /\ <<x, y>> \in Seq(S)
  OBVIOUS
<1> HIDE DEF S
<1>2. /\ <<>> \o <<x>> = <<x>> /\ <<>> \o <<x, y>> = <<x, y>>
      /\ <<x>> \o <<>> = <<x>> /\ <<>> \o <<>> = <<>>
  BY <1>1, ConcatEmptySeq
<1>3. <<x>> \o <<y>> = <<x, y>>
  <2>1. <<x>> \o <<y>> \in Seq(S) /\ Len(<<x>> \o <<y>>) = 2
        /\ (<<x>> \o <<y>>)[1] = x /\ (<<x>> \o <<y>>)[2] = y
    BY <1>1, ConcatProperties
  <2>2. \A i \in 1 .. 2 : (<<x>> \o <<y>>)[i] = <<x, y>>[i]
    BY <2>1
  <2> QED  BY <1>1, <2>1, <2>2, SeqEqual, Len(<<x, y>>) = 2
<1>4. SubSeq(<<x>>, 1, 0) = <<>> /\ SubSeq(<<x, y>>, 1, 0) = <<>>
  BY SubSeqEmpty
<1>5. SubSeq(<<x>>, 1, 1) = <<x>> /\ SubSeq(<<x, y>>, 1, 2) = <<x, y>>
  BY <1>1, SubSeqFull, Len(<<x>>) = 1, Len(<<x, y>>) = 2
<1>6. SubSeq(<<x, y>>, 1, 1) = <<x>>
  <2>1. SubSeq(<<x>> \o <<y>>, 1, 1) = SubSeq(<<x>>, 1, 1)
    BY <1>1, SubSeqOfConcat1, Len(<<x>>) = 1
  <2> QED  BY <1>3, <1>5, <2>1
<1>7. 0 .. Len(<<x>>) = {0, 1} /\ 0 .. Len(<<x, y>>) = {0, 1, 2}
  OBVIOUS
<1> QED  BY <1>2, <1>3, <1>4, <1>5, <1>6, <1>7

LEMMA Elements ==
  ASSUME NEW x, NEW y
  PROVE  /\ DOMAIN <<>> = {} /\ DOMAIN <<x>> = {1} /\ DOMAIN <<x, y>> = {1, 2}
         /\ Len(<<>>) = 0 /\ Len(<<x>>) = 1 /\ Len(<<x, y>>) = 2
         /\ <<x>>[1] = x /\ <<x, y>>[1] = x /\ <<x, y>>[2] = y
OBVIOUS

LEMMA Statuses ==
  ASSUME NEW r, NEW status, NEW n
  PROVE  /\ Intent(r).status = "pending" /\ Intent(r).phase = "intent"
         /\ Row(r, "result", status, n).status = status
         /\ Row(r, "result", status, n).count = n
         /\ Result(r, status) = Row(r, "result", status, 0)
BY DEF Intent, Result, Row

(* Rows with those of a record that succeeds, or that fails half-way. *)
LEMMA Recorded ==
  ASSUME NEW x, NEW y
  PROVE  /\ <<>> \o <<x>> = <<x>> /\ <<x>> \o <<y>> = <<x, y>> /\ <<>> \o <<x, y>> = <<x, y>>
         /\ \A k \in 0 .. Len(<<x>>) : <<>> \o SubSeq(<<x>>, 1, k) \in {<<>>, <<x>>}
         /\ \A k \in 0 .. Len(<<y>>) : <<x>> \o SubSeq(<<y>>, 1, k) \in {<<x>>, <<x, y>>}
         /\ \A k \in 0 .. Len(<<x, y>>) :
               <<>> \o SubSeq(<<x, y>>, 1, k) \in {<<>>, <<x>>, <<x, y>>}
<1>1. /\ \A k \in 0 .. Len(<<x>>) : SubSeq(<<x>>, 1, k) \in {<<>>, <<x>>}
      /\ \A k \in 0 .. Len(<<x, y>>) : SubSeq(<<x, y>>, 1, k) \in {<<>>, <<x>>, <<x, y>>}
  BY ShortRows
<1>2. \A k \in 0 .. Len(<<y>>) : SubSeq(<<y>>, 1, k) \in {<<>>, <<y>>}
  BY ShortRows
<1>3. /\ <<>> \o <<x>> = <<x>> /\ <<x>> \o <<y>> = <<x, y>> /\ <<>> \o <<x, y>> = <<x, y>>
      /\ <<x>> \o <<>> = <<x>> /\ <<>> \o <<>> = <<>>
  BY ShortRows
<1> QED  BY <1>1, <1>2, <1>3

-------------------------------------------------------------------------------
(* A step of one call: the others stay as they are, and a transaction stays  *)
(* open, or is opened.                                                       *)
StepOf(c) ==
    /\ \A d \in Calls \ {c} :
          /\ pc'[d] = pc[d] /\ call'[d] = call[d] /\ rows'[d] = rows[d]
          /\ effect'[d] = effect[d] /\ items'[d] = items[d] /\ outcome'[d] = outcome[d]
    /\ tx' = tx \/ (tx \in {"none", "open"} /\ tx' = "open")

LEMMA OthersStay ==
  ASSUME CallsInv, NEW c \in Calls, StepOf(c), NEW d \in Calls \ {c}
  PROVE  Sound(d)'
<1>1. Sound(d)
  BY DEF CallsInv
<1>2. RowsFollow(d)' /\ RowsConclude(d)'
  BY <1>1 DEF Sound, StepOf, RowsFollow, RowsConclude, IsListing
<1>3. Kept(d)'
  BY <1>1 DEF Sound, StepOf, Kept, InTransaction, Changes, Numbers
<1> QED  BY <1>2, <1>3 DEF Sound

LEMMA MakeKeeps ==
  ASSUME CallsInv, NEW c \in Calls, NEW surface, NEW n, NEW class, NEW a, NEW identity,
         Make(c, surface, n, class, a, identity),
         \/ tx' = tx /\ surface # "transaction"
         \/ tx \in {"none", "open"} /\ tx' = "open"
  PROVE  TypeOK' /\ Sound(c)' /\ StepOf(c)
<1>1. TypeOK /\ Sound(c) /\ pc[c] = "new"
  BY DEF CallsInv, Make
<1>2. /\ rows' = rows /\ effect' = effect /\ items' = items
      /\ rows[c] = <<>> /\ effect[c] = "none" /\ items[c] = 0
  BY <1>1 DEF Make, Sound, RowsFollow
<1>3. /\ call'[c].class = class /\ call'[c].surface = surface /\ DOMAIN call'[c] = Fields
      /\ DOMAIN call' = Calls /\ \A d \in Calls \ {c} : call'[d] = call[d]
  BY <1>1 DEF Make, NoCall, TypeOK, Fields
<1>4. \/ pc' = [pc EXCEPT ![c] = "ended"] /\ outcome' = [outcome EXCEPT ![c] = "refused"]
      \/ pc' = [pc EXCEPT ![c] = "bare"] /\ class = Skip /\ outcome' = outcome
      \/ pc' = [pc EXCEPT ![c] = "auditor"] /\ class \notin {Skip, Refused} /\ outcome' = outcome
  BY DEF Make, End, Goto
<1>5. TypeOK'
  BY ZenonT(60), <1>1, <1>2, <1>3, <1>4 DEF TypeOK, Underway
<1>6. RowsFollow(c)' /\ RowsConclude(c)'
  BY <1>1, <1>2, <1>3, <1>4 DEF TypeOK, RowsFollow, RowsConclude
<1>7. Kept(c)'
  <2>1. DOMAIN rows'[c] = {}
    BY <1>2, Elements
  <2>2. effect'[c] = "none" /\ (InTransaction(c)' /\ pc'[c] \in Underway => tx' = "open")
    BY <1>1, <1>2, <1>3 DEF InTransaction
  <2> QED  BY <2>1, <2>2 DEF Kept
<1>8. StepOf(c)
  BY <1>1, <1>2, <1>3, <1>4 DEF TypeOK, StepOf
<1> QED  BY <1>5, <1>6, <1>7, <1>8 DEF Sound

(* Numbering the messages of a call changes nothing else of it. *)
LEMMA RunAuditedKeeps ==
  ASSUME CallsInv, NEW c \in Calls, RunAudited(c)
  PROVE  TypeOK' /\ Sound(c)' /\ StepOf(c)
<1> DEFINE r == Numbered(c)
<1>1. TypeOK /\ Sound(c) /\ pc[c] = "auditor" /\ rows[c] = <<>> /\ effect[c] = "none" /\ items[c] = 0
      /\ call[c].class \notin {Skip, Refused} /\ call' = [call EXCEPT ![c] = r]
      /\ UNCHANGED <<effect, tx, items>>
  BY DEF CallsInv, RunAudited, Sound, RowsFollow
<1>2. r.class = call[c].class /\ r.surface = call[c].surface /\ r.name = call[c].name
      /\ DOMAIN r = Fields
  BY <1>1 DEF Numbered, TypeOK, Fields
<1>3. \/ /\ pc' = [pc EXCEPT ![c] = IF IsListing(c) THEN "listing" ELSE "running"]
         /\ rows' = [rows EXCEPT ![c] = <<Intent(r)>>] /\ outcome' = outcome
      \/ /\ pc' = [pc EXCEPT ![c] = "ended"] /\ outcome' = [outcome EXCEPT ![c] = "audit error"]
         /\ \E s \in {<<>>, <<Intent(r)>>, <<Intent(r), Result(r, "validation_error")>>} :
               rows' = [rows EXCEPT ![c] = s]
      \/ /\ pc' = [pc EXCEPT ![c] = "ended"] /\ outcome' = [outcome EXCEPT ![c] = "refused"]
         /\ rows' = [rows EXCEPT ![c] = <<Intent(r), Result(r, "validation_error")>>]
  <2> DEFINE x == Intent(r)
             y == Result(r, "validation_error")
  <2>1. \/ Record(c, <<x>>) /\ Goto(c, IF IsListing(c) THEN "listing" ELSE "running")
           /\ outcome' = outcome
        \/ RecordFails(c, <<x>>) /\ End(c, "audit error")
        \/ Record(c, <<x, y>>) /\ End(c, "refused")
        \/ RecordFails(c, <<x, y>>) /\ End(c, "audit error")
    BY DEF RunAudited
  <2> HIDE DEF x, y
  <2>2. Record(c, <<x>>) => rows' = [rows EXCEPT ![c] = <<x>>]
    BY <1>1, Recorded DEF Record
  <2>3. Record(c, <<x, y>>) => rows' = [rows EXCEPT ![c] = <<x, y>>]
    BY <1>1, Recorded DEF Record
  <2>4. RecordFails(c, <<x>>) => \E s \in {<<>>, <<x>>} : rows' = [rows EXCEPT ![c] = s]
    <3>1. \A k \in 0 .. Len(<<x>>) : <<>> \o SubSeq(<<x>>, 1, k) \in {<<>>, <<x>>}
      BY Recorded
    <3> QED  BY <1>1, <3>1 DEF RecordFails
  <2>5. RecordFails(c, <<x, y>>) =>
             \E s \in {<<>>, <<x>>, <<x, y>>} : rows' = [rows EXCEPT ![c] = s]
    <3>1. \A k \in 0 .. Len(<<x, y>>) :
             <<>> \o SubSeq(<<x, y>>, 1, k) \in {<<>>, <<x>>, <<x, y>>}
      BY Recorded
    <3> QED  BY <1>1, <3>1 DEF RecordFails
  <2>6. \/ /\ pc' = [pc EXCEPT ![c] = IF IsListing(c) THEN "listing" ELSE "running"]
           /\ rows' = [rows EXCEPT ![c] = <<x>>] /\ outcome' = outcome
        \/ /\ pc' = [pc EXCEPT ![c] = "ended"] /\ outcome' = [outcome EXCEPT ![c] = "audit error"]
           /\ \E s \in {<<>>, <<x>>, <<x, y>>} : rows' = [rows EXCEPT ![c] = s]
        \/ /\ pc' = [pc EXCEPT ![c] = "ended"] /\ outcome' = [outcome EXCEPT ![c] = "refused"]
           /\ rows' = [rows EXCEPT ![c] = <<x, y>>]
    BY <2>1, <2>2, <2>3, <2>4, <2>5 DEF End, Goto
  <2> QED  BY <2>6 DEF x, y
<1> HIDE DEF r
<1>4. TypeOK'
  BY <1>1, <1>2, <1>3 DEF TypeOK, Underway
<1>5. call'[c] = r
  BY <1>1 DEF TypeOK
<1>6. RowsFollow(c)'
  BY <1>1, <1>2, <1>3, <1>5 DEF TypeOK, RowsFollow, IsListing
<1>7. RowsConclude(c)'
  <2> DEFINE x == Intent(r)
             y == Result(r, "validation_error")
  <2> HIDE DEF x, y
  <2>2. x = Intent(call'[c]) /\ y = Result(call'[c], "validation_error")
    BY <1>5 DEF x, y
  <2>3. \/ pc'[c] # "ended"
        \/ outcome'[c] = "audit error" /\ rows'[c] \in {<<>>, <<x>>, <<x, y>>}
        \/ outcome'[c] = "refused" /\ effect'[c] = "none" /\ rows'[c] = <<x, y>>
    BY <1>1, <1>3 DEF TypeOK, x, y
  <2> QED  BY <2>2, <2>3 DEF RowsConclude
<1>8. Kept(c)'
  <2>1. \A i \in DOMAIN rows'[c] : rows'[c][i].status # "ok"
    <3> DEFINE x == Intent(r)
               y == Result(r, "validation_error")
    <3>1. rows'[c] \in {<<>>, <<x>>, <<x, y>>}
      BY <1>1, <1>3 DEF TypeOK
    <3>2. x.status # "ok" /\ y.status # "ok"
      BY Statuses
    <3> QED  BY <3>1, <3>2, Elements
  <2>2. InTransaction(c) => tx = "open"
    BY <1>1 DEF Sound, Kept, Underway
  <2> QED  BY <1>1, <1>2, <1>5, <2>1, <2>2 DEF Kept, InTransaction
<1>9. StepOf(c)
  BY <1>1, <1>3 DEF TypeOK, StepOf
<1> QED  BY <1>4, <1>6, <1>7, <1>8, <1>9 DEF Sound

(* The handler of a call that is under way, and a call that ends. *)
LEMMA HandlerKeeps ==
  ASSUME CallsInv, NEW c \in Calls,
         \/ AuditorFails(c) \/ MethodMissing(c) \/ Mutate(c) \/ HandlerReturns(c)
         \/ HandlerThrows(c) \/ BareEnds(c) \/ Yield(c) \/ ListingEnds(c) \/ ListingThrows(c)
  PROVE  TypeOK' /\ Sound(c)' /\ StepOf(c)
<1> DEFINE x == Intent(call[c])
           Ends(how) == /\ pc' = [pc EXCEPT ![c] = "ended"]
                        /\ outcome' = [outcome EXCEPT ![c] = how]
           RowsAre(s) == rows' = [rows EXCEPT ![c] = s]
<1>1. TypeOK /\ Sound(c) /\ UNCHANGED <<call, tx>>
  BY DEF CallsInv, AuditorFails, MethodMissing, Mutate, HandlerReturns, HandlerThrows, BareEnds,
     Yield, ListingEnds, ListingThrows
<1>2. CASE AuditorFails(c) \/ MethodMissing(c)
  <2>1. /\ pc[c] = "auditor" /\ rows[c] = <<>> /\ effect[c] = "none"
        /\ UNCHANGED <<rows, effect, items>> /\ (Ends("audit error") \/ Ends("refused"))
    BY <1>1, <1>2 DEF AuditorFails, MethodMissing, End, Goto, Sound, RowsFollow
  <2>2. TypeOK' /\ StepOf(c)
    BY ZenonT(60), <1>1, <2>1 DEF TypeOK, Underway, StepOf
  <2>3. RowsFollow(c)'
    BY <1>1, <2>1 DEF TypeOK, RowsFollow
  <2>5. RowsConclude(c)'
    <3>1. rows'[c] = <<>> /\ effect'[c] = "none" /\ outcome'[c] \in {"audit error", "refused"}
      BY <1>1, <2>1 DEF TypeOK
    <3> QED  BY <3>1 DEF RowsConclude
  <2>4. Kept(c)'
    BY <1>1, <2>1, Elements DEF TypeOK, Sound, Kept, InTransaction, Underway
  <2> QED  BY <2>2, <2>3, <2>4, <2>5 DEF Sound
<1>3. CASE Mutate(c)
  <2>1. /\ pc[c] \in {"running", "bare"} /\ effect[c] = "none"
        /\ effect' = [effect EXCEPT ![c] = IF InTransaction(c) THEN "open" ELSE "kept"]
        /\ UNCHANGED <<pc, rows, items, outcome>>
    BY <1>3 DEF Mutate, InTransaction
  <2>2. TypeOK' /\ StepOf(c)
    BY <1>1, <2>1 DEF TypeOK, StepOf
  <2>3. RowsFollow(c)' /\ RowsConclude(c)'
    BY <1>1, <2>1 DEF TypeOK, Sound, RowsFollow, RowsConclude
  <2>4. Kept(c)'
    BY <1>1, <2>1 DEF TypeOK, Sound, Kept, InTransaction, Underway
  <2> QED  BY <2>2, <2>3, <2>4 DEF Sound
<1>4. CASE BareEnds(c)
  <2>1. /\ pc[c] = "bare" /\ call[c].class = Skip /\ rows[c] = <<>>
        /\ UNCHANGED <<rows, effect, items>> /\ (Ends("value") \/ Ends("error"))
    BY <1>1, <1>4 DEF BareEnds, End, Goto, Sound, RowsFollow
  <2>2. TypeOK' /\ StepOf(c)
    BY ZenonT(60), <1>1, <2>1 DEF TypeOK, Underway, StepOf
  <2>3. RowsFollow(c)' /\ RowsConclude(c)'
    BY <1>1, <2>1 DEF TypeOK, RowsFollow, RowsConclude
  <2>4. Kept(c)'
    BY <1>1, <2>1, Elements DEF TypeOK, Sound, Kept, InTransaction, Underway
  <2> QED  BY <2>2, <2>3, <2>4 DEF Sound
<1>5. CASE Yield(c)
  <2>1. /\ pc[c] = "listing" /\ items' = [items EXCEPT ![c] = @ + 1]
        /\ UNCHANGED <<pc, rows, effect, outcome>>
    BY <1>5 DEF Yield
  <2>2. TypeOK'
    <3>1. items' \in [Calls -> Nat]
      <4>1. items \in [Calls -> Nat] /\ items' = [items EXCEPT ![c] = items[c] + 1]
        BY <1>1, <2>1 DEF TypeOK
      <4> QED  BY <4>1
    <3> QED  BY <1>1, <2>1, <3>1 DEF TypeOK
  <2>5. StepOf(c)
    BY <1>1, <2>1 DEF TypeOK, StepOf
  <2>3. RowsFollow(c)' /\ RowsConclude(c)'
    BY <1>1, <2>1 DEF TypeOK, Sound, RowsFollow, RowsConclude, IsListing
  <2>4. Kept(c)'
    BY <1>1, <2>1 DEF Sound, Kept, InTransaction, Changes, Numbers
  <2> QED  BY <2>2, <2>3, <2>4, <2>5 DEF Sound
<1>6. CASE HandlerReturns(c) \/ HandlerThrows(c) \/ ListingEnds(c) \/ ListingThrows(c)
  <2>1. /\ pc[c] \in {"running", "listing"} /\ rows[c] = <<x>>
        /\ UNCHANGED <<effect, items>>
    BY <1>1, <1>6
    DEF HandlerReturns, HandlerThrows, ListingEnds, ListingThrows, Sound, RowsFollow
  <2>2. PICK status \in {"ok", "error"}, n \in Nat :
           LET y == Row(call[c], "result", status, n) IN
           /\ \/ Ends(IF status = "ok" THEN "value" ELSE "error") /\ RowsAre(<<x, y>>)
              \/ Ends("audit error") /\ (RowsAre(<<x>>) \/ RowsAre(<<x, y>>))
           /\ status = "ok" => (Changes(c) => effect[c] # "none") /\ n = items[c]
           /\ status = "error" => n = 0
    <3>1. \A y : /\ <<x>> \o <<y>> = <<x, y>>
                 /\ \A k \in 0 .. Len(<<y>>) : <<x>> \o SubSeq(<<y>>, 1, k) \in {<<x>>, <<x, y>>}
      BY Recorded
    <3> HIDE DEF x
    <3>2. CASE HandlerReturns(c)
      <4> DEFINE y == Result(call[c], "ok")
      <4>1. items[c] = 0 /\ (Changes(c) => effect[c] # "none") /\ y = Row(call[c], "result", "ok", 0)
        BY <1>1, <3>2 DEF HandlerReturns, Sound, RowsFollow, Result
      <4>2. \/ Ends("value") /\ RowsAre(<<x>> \o <<y>>)
            \/ Ends("audit error") /\ \E k \in 0 .. Len(<<y>>) : RowsAre(<<x>> \o SubSeq(<<y>>, 1, k))
        BY <1>1, <2>1, <3>2 DEF HandlerReturns, End, Goto, Record, RecordFails
      <4> HIDE DEF y
      <4>3. \/ Ends("value") /\ RowsAre(<<x, y>>)
            \/ Ends("audit error") /\ (RowsAre(<<x>>) \/ RowsAre(<<x, y>>))
        BY <3>1, <4>2
      <4> WITNESS "ok" \in {"ok", "error"}, 0 \in Nat
      <4> QED  BY <4>1, <4>3
    <3>3. CASE HandlerThrows(c) \/ ListingThrows(c)
      <4> DEFINE y == Result(call[c], "error")
      <4>1. y = Row(call[c], "result", "error", 0)
        BY DEF Result
      <4>2. \/ Ends("error") /\ RowsAre(<<x>> \o <<y>>)
            \/ Ends("audit error") /\ \E k \in 0 .. Len(<<y>>) : RowsAre(<<x>> \o SubSeq(<<y>>, 1, k))
        BY <1>1, <2>1, <3>3 DEF HandlerThrows, ListingThrows, End, Goto, Record, RecordFails
      <4> HIDE DEF y
      <4>3. \/ Ends("error") /\ RowsAre(<<x, y>>)
            \/ Ends("audit error") /\ (RowsAre(<<x>>) \/ RowsAre(<<x, y>>))
        BY <3>1, <4>2
      <4> WITNESS "error" \in {"ok", "error"}, 0 \in Nat
      <4> QED  BY <4>1, <4>3
    <3>4. CASE ListingEnds(c)
      <4> DEFINE y == Row(call[c], "result", "ok", items[c])
      <4>1. items[c] \in Nat /\ ~Changes(c)
        BY <1>1, <3>4 DEF ListingEnds, TypeOK, Sound, RowsFollow, IsListing, Changes, Writers
      <4>2. \/ Ends("value") /\ RowsAre(<<x>> \o <<y>>)
            \/ Ends("audit error") /\ \E k \in 0 .. Len(<<y>>) : RowsAre(<<x>> \o SubSeq(<<y>>, 1, k))
        BY <1>1, <2>1, <3>4 DEF ListingEnds, End, Goto, Record, RecordFails
      <4> HIDE DEF y
      <4>3. \/ Ends("value") /\ RowsAre(<<x, y>>)
            \/ Ends("audit error") /\ (RowsAre(<<x>>) \/ RowsAre(<<x, y>>))
        BY <3>1, <4>2
      <4>4. items[c] \in Nat
        BY <4>1
      <4> WITNESS "ok" \in {"ok", "error"}, items[c] \in Nat
      <4> QED  BY <4>1, <4>3 DEF y
    <3> QED  BY <1>6, <3>2, <3>3, <3>4
  <2> DEFINE y == Row(call[c], "result", status, n)
  <2>3. TypeOK' /\ StepOf(c)
    BY ZenonT(60), <1>1, <2>1, <2>2 DEF TypeOK, Underway, StepOf
  <2>4. RowsFollow(c)'
    BY <1>1, <2>2 DEF TypeOK, RowsFollow
  <2>7. status \in {"ok", "error"} /\ rows'[c] \in {<<x>>, <<x, y>>}
        /\ (outcome'[c] = "audit error" \/ rows'[c] = <<x, y>>)
        /\ outcome'[c] \in {"audit error", IF status = "ok" THEN "value" ELSE "error"}
    BY <1>1, <2>2 DEF TypeOK
  <2>5. RowsConclude(c)'
    <3>2. /\ status = "ok" => y = Row(call'[c], "result", "ok", items'[c])
          /\ status = "error" => y = Result(call'[c], "error")
          /\ x = Intent(call'[c])
      <4>1. call' = call /\ items' = items
        BY <1>1, <2>1
      <4>2. (status = "ok" => n = items[c]) /\ (status = "error" => n = 0)
        BY <2>2
      <4>3. Result(call[c], "error") = Row(call[c], "result", "error", 0)
        BY DEF Result
      <4> QED  BY <4>1, <4>2, <4>3
    <3> HIDE DEF x, y
    <3> QED  BY <2>7, <3>2 DEF RowsConclude
  <2>6. Kept(c)'
    <3>1. x.status = "pending" /\ y.status = status
      BY Statuses
    <3> HIDE DEF x, y
    <3>2. \A i \in DOMAIN rows'[c] : rows'[c][i].status = "ok" => status = "ok"
      <4>1. CASE rows'[c] = <<x>>
        BY <3>1, <4>1, Elements
      <4>2. CASE rows'[c] = <<x, y>>
        BY <3>1, <4>2, Elements
      <4> QED  BY <2>7, <4>1, <4>2
    <3>3. status = "ok" /\ Changes(c) => effect[c] # "none"
      BY <2>2
    <3> QED  BY <1>1, <2>1, <3>2, <3>3 DEF Sound, Kept, InTransaction, Underway, Changes, Numbers
  <2> QED  BY <2>3, <2>4, <2>5, <2>6 DEF Sound
<1> QED  BY <1>2, <1>3, <1>4, <1>5, <1>6

(* A step of no call: an Auditor comes about, or the transaction ends. *)
LEMMA SharedKeeps ==
  ASSUME CallsInv, \/ \E c \in Calls : CreateAuditor(c)
                   \/ CommitTransaction \/ RollbackTransaction
  PROVE  CallsInv'
<1>1. TypeOK /\ \A c \in Calls : Sound(c)
  BY DEF CallsInv
<1>2. ASSUME NEW c \in Calls, CreateAuditor(c)  PROVE CallsInv'
  <2>1. UNCHANGED <<pc, call, rows, effect, tx, items, outcome>>
    BY <1>2 DEF CreateAuditor
  <2>2. TypeOK'
    BY <1>1, <2>1 DEF TypeOK
  <2>3. ASSUME NEW d \in Calls  PROVE Sound(d)'
    <3>1. RowsFollow(d)' /\ RowsConclude(d)'
      BY <1>1, <2>1 DEF Sound, RowsFollow, RowsConclude, IsListing
    <3>2. Kept(d)'
      BY <1>1, <2>1 DEF Sound, Kept, InTransaction, Changes, Numbers
    <3> QED  BY <3>1, <3>2 DEF Sound
  <2> QED  BY <2>2, <2>3 DEF CallsInv
<1>3. ASSUME NEW how \in {"committed", "rolled back"}, NEW fate \in {"kept", "undone"},
             how = "committed" <=> fate = "kept", EndTransaction(how, fate)
      PROVE  CallsInv'
  <2>1. /\ tx = "open" /\ tx' = how /\ UNCHANGED <<pc, call, rows, items, outcome>>
        /\ effect' = [c \in Calls |-> IF effect[c] = "open" THEN fate ELSE effect[c]]
        /\ \A c \in Calls : InTransaction(c) => pc[c] = "ended"
    BY <1>3 DEF EndTransaction
  <2>2. TypeOK'
    BY <1>1, <1>3, <2>1 DEF TypeOK
  <2>3. ASSUME NEW d \in Calls  PROVE Sound(d)'
    <3>1. effect'[d] = (IF effect[d] = "open" THEN fate ELSE effect[d])
          /\ (effect'[d] = "none" <=> effect[d] = "none")
      BY <1>3, <2>1
    <3>2. RowsFollow(d)' /\ RowsConclude(d)'
      BY <1>1, <2>1, <3>1 DEF Sound, RowsFollow, RowsConclude, IsListing
    <3>3. InTransaction(d)' = InTransaction(d) /\ Changes(d)' = Changes(d)
      BY <2>1 DEF InTransaction, Changes, Numbers
    <3>4. InTransaction(d) => pc[d] \notin Underway
      BY <2>1 DEF Underway
    <3>5. Kept(d)
      BY <1>1 DEF Sound
    <3>6. Kept(d)'
      BY <1>3, <2>1, <3>1, <3>3, <3>4, <3>5 DEF Kept
    <3> QED  BY <3>2, <3>6 DEF Sound
  <2> QED  BY <2>2, <2>3 DEF CallsInv
<1> QED  BY <1>2, <1>3 DEF CommitTransaction, RollbackTransaction

(* The two kinds of step there are. *)
Calling(c) == CallOperation(c) \/ CallEngine(c) \/ CallInTransaction(c)
              \/ CallConnection(c) \/ CallFramework(c)
Handling(c) == \/ AuditorFails(c) \/ MethodMissing(c) \/ Mutate(c) \/ HandlerReturns(c)
               \/ HandlerThrows(c) \/ BareEnds(c) \/ Yield(c) \/ ListingEnds(c) \/ ListingThrows(c)

LEMMA CallKeeps ==
  ASSUME CallsInv, NEW c \in Calls, Calling(c) \/ RunAudited(c) \/ Handling(c)
  PROVE  TypeOK' /\ Sound(c)' /\ StepOf(c)
<1>1. CASE Calling(c)
  <2>1. PICK surface, n, class, a, identity :
           /\ Make(c, surface, n, class, a, identity)
           /\ \/ tx' = tx /\ surface # "transaction"
              \/ tx \in {"none", "open"} /\ tx' = "open"
    BY <1>1
    DEF Calling, CallOperation, CallEngine, CallInTransaction, CallConnection, CallFramework,
        CallMethod, Frameworks
  <2> QED  BY <2>1, MakeKeeps
<1>2. CASE RunAudited(c)
  BY <1>2, RunAuditedKeeps
<1>3. CASE Handling(c)
  BY <1>3, HandlerKeeps DEF Handling
<1> QED  BY <1>1, <1>2, <1>3

LEMMA CallsInit == Init => CallsInv
<1> SUFFICES ASSUME Init  PROVE CallsInv
  OBVIOUS
<1>1. TypeOK
  BY DEF Init, TypeOK, NoCall, Fields
<1>2. ASSUME NEW c \in Calls  PROVE Sound(c)
  <2>1. pc[c] = "new" /\ rows[c] = <<>> /\ effect[c] = "none" /\ items[c] = 0
    BY DEF Init
  <2> QED  BY <2>1, Elements DEF Sound, RowsFollow, RowsConclude, Kept, Underway
<1> QED  BY <1>1, <1>2 DEF CallsInv

LEMMA CallsNext == CallsInv /\ [Next]_vars => CallsInv'
<1> SUFFICES ASSUME CallsInv, [Next]_vars  PROVE CallsInv'
  OBVIOUS
<1>1. ASSUME NEW c \in Calls, Calling(c) \/ RunAudited(c) \/ Handling(c)  PROVE CallsInv'
  <2>1. TypeOK' /\ Sound(c)' /\ StepOf(c)
    BY <1>1, CallKeeps
  <2>2. \A d \in Calls \ {c} : Sound(d)'
    BY <2>1, OthersStay
  <2> QED  BY <2>1, <2>2 DEF CallsInv
<1>2. CASE \/ \E c \in Calls : CreateAuditor(c)
           \/ CommitTransaction \/ RollbackTransaction
  BY <1>2, SharedKeeps
<1>3. CASE UNCHANGED vars
  <2>1. UNCHANGED <<pc, call, rows, effect, tx, items, outcome>>
    BY <1>3 DEF vars
  <2>2. TypeOK'
    BY <2>1 DEF CallsInv, TypeOK
  <2>3. ASSUME NEW d \in Calls  PROVE Sound(d)'
    <3>1. RowsFollow(d)' /\ RowsConclude(d)'
      BY <2>1 DEF CallsInv, Sound, RowsFollow, RowsConclude, IsListing
    <3>2. Kept(d)'
      BY <2>1 DEF CallsInv, Sound, Kept, InTransaction, Changes, Numbers
    <3> QED  BY <3>1, <3>2 DEF Sound
  <2> QED  BY <2>2, <2>3 DEF CallsInv
<1> QED  BY <1>1, <1>2, <1>3 DEF Next, Calling, Handling

(* Every reachable state satisfies the inductive invariant: every call and its *)
(* rows are Sound.                                                            *)
THEOREM CallsInvariance == Spec => []CallsInv
BY CallsInit, CallsNext, PTL DEF Spec

(* Every variable a call's rows depend on keeps its type. *)
THEOREM TypeCorrect == Spec => []TypeOK
<1>1. CallsInv => TypeOK
  BY DEF CallsInv
<1> QED  BY <1>1, CallsInvariance, PTL

(* What a caller saw of an audited call is what its rows say (runAudited of  *)
(* every adapter, list of langgraph/wrap.ts), whichever records failed.      *)
THEOREM RecordsTellTheTruth == Spec => []RecordedAsSeen
<1>1. CallsInv => RecordedAsSeen
  <2> SUFFICES ASSUME CallsInv, NEW c \in Calls
               PROVE  LET statuses == [i \in DOMAIN rows[c] |-> rows[c][i].status] IN
                      /\ pc[c] \in {"running", "listing"} => statuses = <<"pending">>
                      /\ pc[c] = "ended" /\ call[c].class # Skip =>
                           CASE outcome[c] = "value"   -> /\ statuses = <<"pending", "ok">>
                                                          /\ rows[c][2].count = items[c]
                             [] outcome[c] = "error"   -> statuses = <<"pending", "error">>
                             [] outcome[c] = "refused" ->
                                  /\ statuses \in {<<>>, <<"pending", "validation_error">>}
                                  /\ effect[c] = "none"
                             [] OTHER -> outcome[c] = "audit error" /\ Len(statuses) <= 2
    BY DEF RecordedAsSeen
  <2> DEFINE statuses == [i \in DOMAIN rows[c] |-> rows[c][i].status]
             x == Intent(call[c])
  <2>1. RowsFollow(c) /\ RowsConclude(c)
    BY DEF CallsInv, Sound
  <2>2. x.status = "pending"
    BY Statuses
  <2>3. ASSUME NEW y, rows[c] = <<x, y>>  PROVE statuses = <<"pending", y.status>>
    <3> HIDE DEF x
    <3> QED  BY <2>2, <2>3, Elements
  <2>4. rows[c] = <<x>> => statuses = <<"pending">>
    <3> HIDE DEF x
    <3> QED  BY <2>2, Elements
  <2>5. rows[c] = <<>> => statuses = <<>>
    BY Elements
  <2>6. pc[c] \in {"running", "listing"} => statuses = <<"pending">>
    BY <2>1, <2>4 DEF RowsFollow
  <2>7. ASSUME pc[c] = "ended", call[c].class # Skip
        PROVE  CASE outcome[c] = "value"   -> /\ statuses = <<"pending", "ok">>
                                              /\ rows[c][2].count = items[c]
                 [] outcome[c] = "error"   -> statuses = <<"pending", "error">>
                 [] outcome[c] = "refused" ->
                      /\ statuses \in {<<>>, <<"pending", "validation_error">>}
                      /\ effect[c] = "none"
                 [] OTHER -> outcome[c] = "audit error" /\ Len(statuses) <= 2
    <3> HIDE DEF statuses
    <3>1. CASE /\ outcome[c] = "value"
               /\ rows[c] = <<x, Row(call[c], "result", "ok", items[c])>>
      <4> DEFINE y == Row(call[c], "result", "ok", items[c])
      <4>1. y.status = "ok" /\ y.count = items[c]
        BY Statuses
      <4> HIDE DEF x, y
      <4>2. rows[c][2] = y
        BY <3>1, Elements DEF y
      <4>3. statuses = <<"pending", y.status>>
        BY <2>3, <3>1 DEF y
      <4> QED  BY <3>1, <4>1, <4>2, <4>3
    <3>2. CASE outcome[c] = "error" /\ rows[c] = <<x, Result(call[c], "error")>>
      <4> DEFINE y == Result(call[c], "error")
      <4>1. y.status = "error"
        BY Statuses
      <4> HIDE DEF x, y
      <4>2. statuses = <<"pending", y.status>>
        BY <2>3, <3>2 DEF y
      <4> QED  BY <3>2, <4>1, <4>2
    <3>3. CASE /\ outcome[c] = "refused" /\ effect[c] = "none"
               /\ rows[c] \in {<<>>, <<x, Result(call[c], "validation_error")>>}
      <4> DEFINE y == Result(call[c], "validation_error")
      <4>1. y.status = "validation_error"
        BY Statuses
      <4> HIDE DEF x, y
      <4>2. rows[c] = <<x, y>> => statuses = <<"pending", y.status>>
        BY <2>3
      <4>3. rows[c] \in {<<>>, <<x, y>>}
        BY <3>3 DEF y
      <4> QED  BY <2>5, <3>3, <4>1, <4>2, <4>3
    <3>4. CASE outcome[c] = "audit error" /\ \E y : rows[c] \in {<<>>, <<x>>, <<x, y>>}
      <4> HIDE DEF x
      <4>1. PICK y : rows[c] \in {<<>>, <<x>>, <<x, y>>}
        BY <3>4
      <4>2. statuses \in {<<>>, <<"pending">>, <<"pending", y.status>>}
        BY <2>3, <2>4, <2>5, <4>1 DEF x
      <4>3. Len(statuses) <= 2
        <5>1. /\ Len(<<>>) = 0 /\ Len(<<"pending">>) = 1
              /\ Len(<<"pending", y.status>>) = 2
          BY Elements
        <5>2. Len(statuses) = 0 \/ Len(statuses) = 1 \/ Len(statuses) = 2
          BY <4>2, <5>1
        <5>3. \A n : n = 0 \/ n = 1 \/ n = 2 => n <= 2
          OBVIOUS
        <5> QED  BY <5>2, <5>3
      <4> QED  BY <3>4, <4>3
    <3> QED  BY <2>1, <2>7, <3>1, <3>2, <3>3, <3>4 DEF RowsConclude
  <2> QED  BY <2>6, <2>7
<1> QED  BY <1>1, CallsInvariance, PTL

(* A row that says ok stands for a change that is there, or whose            *)
(* transaction is open or was rolled back (runAudited inside                 *)
(* wrapTransaction, gbrain/wrap.ts).                                         *)
THEOREM OkIsTrue == Spec => []OkIsKept
<1>1. CallsInv => OkIsKept
  BY DEF CallsInv, TypeOK, Sound, Kept, OkIsKept
<1> QED  BY <1>1, CallsInvariance, PTL

-------------------------------------------------------------------------------
(* The numbers of added messages. *)
Adding(c) == pc[c] = "running" /\ Numbers(c) > 0
Added(c)  == outcome[c] = "value" /\ Numbers(c) > 0

NumberTypes(c) ==
    /\ call[c].surface = "langchain" => call[c].args.number \in Nat
    /\ call[c].first \in Nat /\ call[c].last \in Nat
    /\ pc[c] \in {"bare", "listing"} => Numbers(c) = 0
    /\ outcome[c] = "value" => pc[c] = "ended"

(* Unless adds crossed, one is under way at most, with the next numbers, and *)
(* the counter is at the last number that was used.                          *)
InOrder ==
    /\ \A c \in Calls : Adding(c) =>
          call[c].first = counter + 1 /\ call[c].last = counter + Numbers(c)
    /\ \A c \in Calls : Added(c) => call[c].first <= call[c].last /\ call[c].last <= counter
    /\ \A c, d \in Calls : Adding(c) /\ Adding(d) => c = d
    /\ \A c, d \in Calls : c # d /\ Added(c) /\ Added(d) =>
          call[c].last < call[d].first \/ call[d].last < call[c].first

NumberInv == /\ CallsInv /\ counter \in Nat
             /\ \A c \in Calls : NumberTypes(c)
             /\ ~crossed => InOrder

LEMMA NumbersAreNatural ==
  ASSUME NEW c \in Calls, NumberTypes(c)
  PROVE  Numbers(c) \in Nat
BY DEF NumberTypes, Numbers

(* What a step of one call may do to the numbers. *)
LEMMA NumberStep ==
  ASSUME NumberInv, CallsInv', NEW c \in Calls, StepOf(c), NumberTypes(c)',
         crossed => crossed',
         \/ ~Adding(c)' /\ ~Added(c)' /\ counter' = counter
         \/ /\ Adding(c)' /\ ~Added(c)' /\ counter' = counter
            /\ ~crossed' => \A d \in Calls : ~Adding(d)
            /\ call'[c].first = counter + 1 /\ call'[c].last = counter + Numbers(c)'
         \/ /\ Adding(c) /\ ~Adding(c)' /\ call' = call /\ counter' \in Nat
            /\ ~crossed => counter' = call[c].last
         \/ Adding(c)' = Adding(c) /\ Added(c)' = Added(c) /\ call' = call /\ counter' = counter
  PROVE  NumberInv'
<1>1. ASSUME NEW d \in Calls \ {c}
      PROVE  /\ NumberTypes(d)' /\ call'[d] = call[d]
             /\ Adding(d)' = Adding(d) /\ Added(d)' = Added(d) /\ Numbers(d)' = Numbers(d)
  BY DEF NumberInv, StepOf, NumberTypes, Adding, Added, Numbers
<1>2. counter' \in Nat /\ counter \in Nat
  BY DEF NumberInv
<1>3. \A d \in Calls : /\ call[d].first \in Nat /\ call[d].last \in Nat
                       /\ call'[d].first \in Nat /\ call'[d].last \in Nat
                       /\ Numbers(d) \in Nat /\ Numbers(d)' \in Nat
  <2>1. ASSUME NEW d \in Calls, NumberTypes(d)'  PROVE Numbers(d)' \in Nat
    BY <2>1 DEF NumberTypes, Numbers
  <2> QED  BY <1>1, <2>1, NumbersAreNatural DEF NumberInv, NumberTypes
<1>4. ASSUME ~crossed'  PROVE InOrder'
  <2>1. InOrder
    BY <1>4 DEF NumberInv
  <2>2. CASE ~Adding(c)' /\ ~Added(c)' /\ counter' = counter
    BY <1>1, <2>1, <2>2 DEF InOrder
  <2>3. CASE /\ Adding(c)' /\ ~Added(c)' /\ counter' = counter
             /\ ~crossed' => \A d \in Calls : ~Adding(d)
             /\ call'[c].first = counter + 1 /\ call'[c].last = counter + Numbers(c)'
    BY <1>1, <1>4, <2>1, <2>3 DEF InOrder
  <2>4. CASE /\ Adding(c) /\ ~Adding(c)' /\ call' = call /\ counter' \in Nat
             /\ ~crossed => counter' = call[c].last
    <3>1. /\ call[c].first = counter + 1 /\ call[c].last = counter + Numbers(c)
          /\ Numbers(c) > 0 /\ counter' = call[c].last
      BY <1>4, <2>1, <2>4 DEF InOrder, Adding
    <3>2. call[c].first <= call[c].last /\ counter < call[c].first /\ counter <= counter'
      BY <1>2, <1>3, <3>1
    <3>3. \A d \in Calls \ {c} : ~Adding(d)'
      BY <1>1, <2>1, <2>4 DEF InOrder
    <3>4. \A d \in Calls \ {c} : Added(d)' =>
             /\ call'[d].first <= call'[d].last /\ call'[d].last <= counter
             /\ call'[d].last < call'[c].first
      BY <1>1, <1>2, <1>3, <2>1, <2>4, <3>2 DEF InOrder
    <3>5. \A d, e \in Calls : d # e /\ Added(d)' /\ Added(e)' =>
             call'[d].last < call'[e].first \/ call'[e].last < call'[d].first
      BY <1>1, <2>1, <2>4, <3>4 DEF InOrder
    <3>6. \A d \in Calls : Added(d)' => call'[d].first <= call'[d].last /\ call'[d].last <= counter'
      BY <1>2, <1>3, <2>4, <3>1, <3>2, <3>4
    <3> QED  BY <2>4, <3>3, <3>5, <3>6 DEF InOrder
  <2>5. CASE Adding(c)' = Adding(c) /\ Added(c)' = Added(c) /\ call' = call /\ counter' = counter
    <3>1. Numbers(c)' = Numbers(c)
      BY <2>5 DEF Numbers
    <3> QED  BY <1>1, <2>1, <2>5, <3>1 DEF InOrder
  <2> QED  BY <2>2, <2>3, <2>4, <2>5
<1> QED  BY <1>1, <1>2, <1>4 DEF NumberInv

LEMMA NumbersNext == NumberInv /\ [Next]_vars => NumberInv'
<1> SUFFICES ASSUME NumberInv, [Next]_vars  PROVE NumberInv'
  OBVIOUS
<1>1. CallsInv'
  BY CallsNext DEF NumberInv
<1>2. ASSUME NEW c \in Calls, Calling(c)  PROVE NumberInv'
  <2>1. StepOf(c)
    BY <1>2, CallKeeps DEF NumberInv
  <2>2. /\ pc[c] = "new" /\ pc'[c] # "running" /\ outcome'[c] # "value"
        /\ UNCHANGED <<counter, crossed>>
    <3>1. pc[c] = "new" /\ outcome[c] # "value"
      BY <1>2 DEF NumberInv, NumberTypes, Calling, CallOperation, CallEngine, CallInTransaction,
           CallConnection, CallFramework, CallMethod, Make
    <3> QED
      BY ZenonT(60), <1>2, <3>1 DEF NumberInv, CallsInv, TypeOK, Calling, CallOperation, CallEngine,
         CallInTransaction, CallConnection, CallFramework, CallMethod, Make, End, Goto
  <2>3. NumberTypes(c)'
    <3>1. CASE CallFramework(c)
      <4>1. PICK m \in Menu[c] : \E who \in Who[c] :
              Make(c, m[1], m[2], FrameworkClass(m[1], m[2], m[3]), m[3],
                   ResolveIdentity(Nobody, who.context))
        BY <3>1 DEF CallFramework
      <4>2. /\ call'[c].surface = m[1] /\ call'[c].name = m[2] /\ call'[c].args = m[3]
            /\ call'[c].class = FrameworkClass(m[1], m[2], m[3])
            /\ call'[c].first = 0 /\ call'[c].last = 0
        <5>1. PICK who \in Who[c] :
                Make(c, m[1], m[2], FrameworkClass(m[1], m[2], m[3]), m[3],
                     ResolveIdentity(Nobody, who.context))
          BY <4>1
        <5>2. /\ DOMAIN call = Calls
              /\ call' = [call EXCEPT ![c] =
                    [NoCall EXCEPT !.surface = m[1], !.name = m[2],
                                   !.class = FrameworkClass(m[1], m[2], m[3]), !.args = m[3],
                                   !.identity = ResolveIdentity(Nobody, who.context)]]
          BY <5>1 DEF Make, NumberInv, CallsInv, TypeOK
        <5> QED  BY <5>2 DEF NoCall
      <4>3. m[1] = "langchain" => m[3].number \in Nat
        BY MenuAssumption
      <4>4. pc'[c] = "bare" => FrameworkClass(m[1], m[2], m[3]) = Skip
        BY <1>1, <4>2 DEF CallsInv, Sound, RowsFollow
      <4>5. m[1] = "langchain" /\ FrameworkClass(m[1], m[2], m[3]) = Skip => Numbers(c)' = 0
        <5> SUFFICES ASSUME m[1] = "langchain", FrameworkClass(m[1], m[2], m[3]) = Skip
                     PROVE  Numbers(c)' = 0
          OBVIOUS
        <5>1. Table(m[1], m[3]) = LangChainTable(m[3])
          BY DEF Table
        <5>2. m[2] \in {"addMessage", "addUserMessage", "addAIMessage", "addMessages"} =>
                /\ m[2] \in DOMAIN LangChainTable(m[3])
                /\ LangChainTable(m[3])[m[2]] # Skip
          BY DEF LangChainTable, Skip, Class, Insert
        <5>3. m[2] \in {"addMessage", "addUserMessage", "addAIMessage", "addMessages"} =>
                m[2] = "addMessages" /\ m[3].number = 0
          BY <5>1, <5>2 DEF FrameworkClass
        <5> QED  BY <4>2, <5>3 DEF Numbers
      <4>6. m[1] # "langchain" => Numbers(c)' = 0
        BY <4>2 DEF Numbers
      <4>7. pc'[c] # "listing"
        BY <4>1 DEF Make, End, Goto, NumberInv, CallsInv, TypeOK
      <4> QED  BY <2>2, <4>2, <4>3, <4>4, <4>5, <4>6, <4>7 DEF NumberTypes
    <3>2. CASE CallOperation(c) \/ CallEngine(c) \/ CallInTransaction(c) \/ CallConnection(c)
      <4>1. PICK surface \in {"operations", "engine", "transaction", "connection"} :
               \E n, class, a, identity : Make(c, surface, n, class, a, identity)
        BY <3>2 DEF CallOperation, CallEngine, CallInTransaction, CallConnection, CallMethod
      <4>2. call'[c].surface = surface /\ call'[c].first = 0 /\ call'[c].last = 0
        <5>1. PICK n, class, a, identity : Make(c, surface, n, class, a, identity)
          BY <4>1
        <5>2. call' = [call EXCEPT ![c] = [NoCall EXCEPT !.surface = surface, !.name = n,
                                   !.class = class, !.args = a, !.identity = identity]]
              /\ DOMAIN call = Calls
          BY <5>1 DEF Make, NumberInv, CallsInv, TypeOK
        <5> QED  BY <5>2 DEF NoCall
      <4>3. surface # "langchain"
        BY <4>1
      <4>4. pc'[c] # "listing"
        BY <4>1 DEF Make, End, Goto, NumberInv, CallsInv, TypeOK
      <4> QED  BY <2>2, <4>2, <4>3, <4>4 DEF NumberTypes, Numbers
    <3> QED  BY <1>2, <3>1, <3>2 DEF Calling
  <2> QED  BY <1>1, <2>1, <2>2, <2>3, NumberStep DEF Adding, Added
<1>3. ASSUME NEW c \in Calls, RunAudited(c)  PROVE NumberInv'
  <2>1. StepOf(c) /\ NumberTypes(c) /\ counter \in Nat /\ pc[c] = "auditor"
    BY <1>3, CallKeeps DEF NumberInv, RunAudited
  <2>2. /\ call'[c] = Numbered(c) /\ DOMAIN call[c] = Fields
        /\ outcome'[c] # "value" /\ counter' = counter
    BY <1>3, <2>1 DEF RunAudited, End, Goto, NumberInv, NumberTypes, CallsInv, TypeOK
  <2>3. /\ call'[c].surface = call[c].surface /\ call'[c].name = call[c].name
        /\ call'[c].args = call[c].args /\ Numbers(c)' = Numbers(c)
    BY <2>2 DEF Numbered, Fields, Numbers
  <2>4. /\ Numbers(c) > 0 => /\ call'[c].first = counter + 1
                             /\ call'[c].last = counter + Numbers(c)
        /\ Numbers(c) = 0 => call'[c] = call[c]
    BY <2>2 DEF Numbered, Fields
  <2>5. Numbers(c) \in Nat
    BY <2>1, NumbersAreNatural
  <2>6. pc'[c] # "bare" /\ (pc'[c] = "listing" => IsListing(c)')
    <3>1. pc'[c] # "bare"
      BY <1>3, <2>1 DEF RunAudited, End, Goto, NumberInv, CallsInv, TypeOK
    <3>2. RowsFollow(c)'
      BY <1>1 DEF CallsInv, Sound
    <3> QED  BY <3>1, <3>2 DEF RowsFollow
  <2>7. NumberTypes(c)'
    BY <2>1, <2>2, <2>3, <2>4, <2>5, <2>6 DEF NumberTypes, IsListing, Numbers
  <2>8. /\ crossed => crossed'
        /\ ~crossed' /\ Numbers(c) > 0 => \A d \in Calls : ~Adding(d)
    BY <1>3 DEF RunAudited, Adding
  <2>9. ~Added(c)'
    BY <2>2 DEF Added
  <2> QED  BY <1>1, <2>1, <2>2, <2>3, <2>4, <2>5, <2>7, <2>8, <2>9, NumberStep DEF Adding
<1>4. ASSUME NEW c \in Calls, Handling(c)  PROVE NumberInv'
  <2>1. StepOf(c) /\ NumberTypes(c) /\ call' = call /\ crossed' = crossed /\ counter \in Nat
    BY <1>4, CallKeeps
    DEF NumberInv, Handling, AuditorFails, MethodMissing, Mutate, HandlerReturns, HandlerThrows,
        BareEnds, Yield, ListingEnds, ListingThrows
  <2>2. Numbers(c)' = Numbers(c)
    BY <2>1 DEF Numbers
  <2>3. /\ TypeOK
        /\ pc'[c] \in {pc[c], "ended"} /\ (outcome'[c] = "value" => pc'[c] = "ended")
    BY <1>4, <2>1
    DEF NumberInv, CallsInv, TypeOK, NumberTypes, Handling, AuditorFails, MethodMissing, Mutate,
        HandlerReturns, HandlerThrows, BareEnds, Yield, ListingEnds, ListingThrows, End, Goto
  <2>4. NumberTypes(c)'
    BY <2>1, <2>2, <2>3 DEF NumberTypes
  <2>5. CASE HandlerReturns(c) /\ outcome'[c] = "value" /\ Numbers(c) > 0
    <3>1. Adding(c) /\ ~Adding(c)' /\ counter' = CounterAfter(c)
      BY <2>3, <2>5 DEF HandlerReturns, Adding, End, Goto, TypeOK
    <3>2. CounterAfter(c) \in Nat
      BY <2>1, <2>5, NumbersAreNatural DEF CounterAfter, NumberTypes
    <3>3. ~crossed => CounterAfter(c) = call[c].last
      <4> SUFFICES ASSUME ~crossed  PROVE CounterAfter(c) = call[c].last
        OBVIOUS
      <4>1. call[c].first = counter + 1 /\ call[c].last = counter + Numbers(c)
        BY <3>1 DEF NumberInv, InOrder
      <4>2. call[c].name # "addMessages" => Numbers(c) = 1
        BY <2>5 DEF Numbers
      <4> QED  BY <2>1, <2>5, <4>1, <4>2 DEF CounterAfter
    <3> QED  BY <1>1, <2>1, <2>4, <3>1, <3>2, <3>3, NumberStep
  <2>6. CASE ~(HandlerReturns(c) /\ outcome'[c] = "value" /\ Numbers(c) > 0)
    <3>1. counter' = counter
      <4>1. CASE HandlerReturns(c)
        <5>1. CASE counter' = CounterAfter(c) /\ End(c, "value")
          <6>1. outcome'[c] = "value"
            BY <2>3, <5>1 DEF End, TypeOK
          <6>2. Numbers(c) = 0
            BY <2>1, <2>6, <4>1, <6>1, NumbersAreNatural
          <6> QED  BY <2>1, <5>1, <6>2 DEF CounterAfter
        <5> QED  BY <4>1, <5>1 DEF HandlerReturns
      <4>2. CASE ~HandlerReturns(c)
        BY <1>4, <4>2
        DEF Handling, AuditorFails, MethodMissing, Mutate, HandlerThrows, BareEnds, Yield,
            ListingEnds, ListingThrows
      <4> QED  BY <4>1, <4>2
    <3>2. CASE pc'[c] = "ended" /\ pc[c] # "ended"
      <4>1. ~Added(c)'
        <5>1. CASE HandlerReturns(c)
          BY <2>2, <2>6, <5>1 DEF Added
        <5>2. CASE BareEnds(c) \/ ListingEnds(c)
          <6>1. Numbers(c) = 0
            BY <2>1, <5>2 DEF BareEnds, ListingEnds, NumberTypes
          <6> QED  BY <2>2, <6>1 DEF Added
        <5>3. CASE AuditorFails(c) \/ MethodMissing(c) \/ HandlerThrows(c) \/ ListingThrows(c)
          <6>1. outcome'[c] # "value"
            BY <2>3, <5>3
            DEF AuditorFails, MethodMissing, HandlerThrows, ListingThrows, End, TypeOK
          <6> QED  BY <6>1 DEF Added
        <5>4. CASE Mutate(c) \/ Yield(c)
          BY <3>2, <5>4 DEF Mutate, Yield
        <5> QED  BY <1>4, <5>1, <5>2, <5>3, <5>4 DEF Handling
      <4>2. ~Adding(c)'
        BY <3>2 DEF Adding
      <4> QED  BY <1>1, <2>1, <2>4, <3>1, <4>1, <4>2, NumberStep
    <3>3. CASE ~(pc'[c] = "ended" /\ pc[c] # "ended")
      <4>1. pc'[c] = pc[c] /\ outcome'[c] = outcome[c]
        BY <1>4, <2>3, <3>3
        DEF Handling, AuditorFails, MethodMissing, Mutate, HandlerReturns, HandlerThrows,
            BareEnds, Yield, ListingEnds, ListingThrows, End, Goto, TypeOK
      <4>2. Adding(c)' = Adding(c) /\ Added(c)' = Added(c)
        BY <2>2, <4>1 DEF Adding, Added
      <4> QED  BY <1>1, <2>1, <2>4, <3>1, <4>2, NumberStep
    <3> QED  BY <3>2, <3>3
  <2> QED  BY <2>5, <2>6
<1>5. ASSUME UNCHANGED <<pc, call, outcome, counter, crossed>>  PROVE NumberInv'
  <2>1. \A c \in Calls : /\ Adding(c)' = Adding(c) /\ Added(c)' = Added(c)
                         /\ Numbers(c)' = Numbers(c) /\ NumberTypes(c)'
    BY <1>5 DEF NumberInv, Adding, Added, NumberTypes, Numbers
  <2> QED  BY <1>1, <1>5, <2>1 DEF NumberInv, InOrder
<1> QED
  BY <1>2, <1>3, <1>4, <1>5
  DEF Next, Calling, Handling, CreateAuditor, CommitTransaction, RollbackTransaction,
      EndTransaction, vars

LEMMA NumbersInit == Init => NumberInv
<1> SUFFICES ASSUME Init  PROVE NumberInv
  OBVIOUS
<1>1. \A c \in Calls : NumberTypes(c) /\ ~Adding(c) /\ ~Added(c)
  BY DEF Init, NoCall, NumberTypes, Adding, Added, Numbers
<1> QED  BY <1>1, CallsInit DEF Init, NumberInv, InOrder

(* As long as adds do not cross, no two messages get one number, of any      *)
(* number of adds, single ones and lists (messageCounter of                  *)
(* langchain/wrap.ts).                                                       *)
THEOREM NumbersStayDistinct == Spec => []NumbersAreDistinct
<1>1. NumberInv => NumbersAreDistinct
  BY DEF NumberInv, InOrder, Added, NumbersAreDistinct
<1> QED  BY <1>1, NumbersInit, NumbersNext, PTL DEF Spec

-------------------------------------------------------------------------------
(* No change without an intent. A method that changes something is let       *)
(* through unaudited only when the host says so or it is unlisted, because   *)
(* the tables and the scopes leave out no other.                             *)
Foretold(c) ==
    /\ pc[c] # "new" /\ call[c].class = Skip /\ Changes(c) => PassedOn(c)
    /\ pc[c] = "ended" /\ call[c].class # Skip /\ rows[c] = <<>> => effect[c] = "none"
    /\ effect[c] # "none" => Changes(c)

AnnounceInv == CallsInv /\ \A c \in Calls : Foretold(c)

\* A row that is recorded, and no reading of something.
IsChange(class) == class.operation \notin {"skip", "refused", "view"}

LEMMA OperationWriters ==
  ASSUME NEW b, NEW p, NEW n \in Writers("operations"), n \in DOMAIN OperationTable(b, p)
  PROVE  IsChange(OperationTable(b, p)[n])
BY SMTT(20) DEF Writers, OperationTable, IsChange, View, Create, Replace, Insert, Delete, Class

LEMMA RenameIsChange ==
  ASSUME NEW p, NEW q
  PROVE  IsChange([Class("rename", p) EXCEPT !.new_path = q])
<1>1. DOMAIN Class("rename", p) = {"operation", "path", "new_path"} /\ Class("rename", p).operation = "rename"
  BY DEF Class
<1> QED  BY <1>1 DEF IsChange

LEMMA EngineWriters ==
  ASSUME NEW b, NEW a, NEW n \in Writers("engine") \ Unlisted
  PROVE  n \in DOMAIN EngineTable(b, a) /\ IsChange(EngineTable(b, a)[n])
<1> DEFINE table == EngineTable(b, a)
<1>1. n \in DOMAIN table
  BY DEF Writers, Unlisted, EngineTable
<1> USE DEF EngineTable, IsChange, Create, Replace, Insert, Delete, Class
<1>2. CASE n \in {"putPage", "deletePage", "upsertChunks", "deleteChunks"}
  BY <1>2
<1>3. CASE n \in {"addLink", "addLinksBatch", "removeLink", "addTag"}
  BY <1>3
<1>4. CASE n \in {"removeTag", "addTimelineEntry", "addTimelineEntriesBatch", "putRawData"}
  BY <1>4
<1>5. CASE n \in {"createVersion", "revertToVersion", "rewriteLinks"}
  BY <1>5
<1>6. CASE n = "updateSlug"
  <2>1. PICK p, q : EngineTable(b, a)["updateSlug"] = [Class("rename", p) EXCEPT !.new_path = q]
    BY DEF EngineTable
  <2> QED  BY <1>6, <2>1, RenameIsChange
<1> QED  BY <1>1, <1>2, <1>3, <1>4, <1>5, <1>6 DEF Writers, Unlisted

LEMMA MastraWriters ==
  ASSUME NEW a, NEW n \in Writers("mastra")
  PROVE  n \in DOMAIN MastraTable(a) /\ IsChange(MastraTable(a)[n])
<1>1. n \in DOMAIN MastraTable(a)
  BY DEF Writers, MastraTable
<1> USE DEF MastraTable, IsChange, Create, Replace, Insert, Delete, Class
<1>2. CASE n = "updateWorkingMemory"
  BY <1>2
<1>3. CASE n = "createThread"
  BY <1>3
<1>4. CASE n = "updateThread"
  BY <1>4
<1>5. CASE n = "deleteThread"
  BY <1>5
<1>6. CASE n = "saveMessages"
  BY <1>6
<1>7. CASE n = "updateMessages"
  BY <1>7
<1>8. CASE n = "deleteMessages"
  BY <1>8
<1>9. CASE n = "indexObservation"
  BY <1>9
<1> QED  BY <1>1, <1>2, <1>3, <1>4, <1>5, <1>6, <1>7, <1>8, <1>9 DEF Writers

LEMMA FrameworkWriters ==
  ASSUME NEW surface \in Frameworks, NEW a, NEW n \in Writers(surface) \ Unlisted
  PROVE  n \in DOMAIN Table(surface, a) /\ IsChange(Table(surface, a)[n])
<1> USE DEF Table, Writers, Unlisted, IsChange, View, Create, Replace, Insert, Delete, Class
<1>1. CASE surface = "langgraph"
  BY <1>1 DEF LangGraphTable
<1>2. CASE surface = "langchain"
  BY <1>2 DEF LangChainTable
<1>3. CASE surface = "mastra"
  BY <1>3, MastraWriters
<1>4. CASE surface = "mem0"
  BY <1>4 DEF Mem0Table
<1>5. CASE surface = "letta"
  BY <1>5 DEF LettaTable, LettaBlocksTable
<1>6. CASE surface = "agent-letta"
  BY <1>6 DEF LettaTable, LettaAgentTable
<1> QED  BY <1>1, <1>2, <1>3, <1>4, <1>5, <1>6 DEF Frameworks

LEMMA ChangesAreRecorded ==
  ASSUME NEW class, IsChange(class), NEW scope
  PROVE  class # Skip /\ MaybeSkipRead(class, scope) = class
BY DEF IsChange, Skip, Class, MaybeSkipRead

LEMMA HostClassIsChange == ASSUME NEW n  PROVE IsChange(HostClass(n))
BY DEF IsChange, HostClass, Insert, Class

(* classifyOperation, classifyEngineMethod and the tables of the others.     *)
LEMMA OperationIsClassified ==
  ASSUME NEW n \in Writers("operations"), NEW p, OperationClass(n, p) = Skip
  PROVE  n \in options.skips \/ n \in Unlisted \ options.optsIn
<1> DEFINE table == OperationTable(BrainIdFrom(p.brain, options.brain), p)
<1>1. IsClassified(n, table) => IsChange(ClassOf(n, table))
  BY OperationWriters, HostClassIsChange DEF IsClassified, ClassOf
<1> HIDE DEF table
<1>2. (n \in Unlisted \/ Scope(n) = "write") /\ Refused # Skip
  BY DEF Scope, Unlisted, Writers, Refused, Skip, Class
<1>4. n \in options.optsIn => IsClassified(n, table)
  BY DEF IsClassified
<1>3. OperationClass(n, p) = IF n \in options.skips THEN Skip
        ELSE IF IsClassified(n, table) THEN MaybeSkipRead(ClassOf(n, table), Scope(n))
        ELSE IF IsUnclassifiedWrite(Scope(n)) THEN Refused ELSE Skip
  BY DEF OperationClass, table
<1> QED  BY <1>1, <1>2, <1>3, <1>4, ChangesAreRecorded DEF IsUnclassifiedWrite

LEMMA EngineIsClassified ==
  ASSUME NEW n \in Writers("engine"), NEW a, EngineClass(n, a) = Skip
  PROVE  n \in options.skips \/ n \in Unlisted \ options.optsIn
<1> SUFFICES ASSUME n \in options.optsIn \/ n \notin Unlisted  PROVE n \in options.skips
  OBVIOUS
<1> DEFINE table == EngineTable(BrainIdFrom(None, options.brain), a)
<1>1. IsClassified(n, table) /\ IsChange(ClassOf(n, table))
  BY EngineWriters, HostClassIsChange DEF IsClassified, ClassOf
<1> HIDE DEF table
<1>2. EngineClass(n, a) = IF n \in options.skips \/ ~IsClassified(n, table) THEN Skip
                          ELSE MaybeSkipRead(ClassOf(n, table), "none")
  BY DEF EngineClass, table
<1> QED  BY <1>1, <1>2, ChangesAreRecorded

LEMMA FrameworkIsClassified ==
  ASSUME NEW surface \in Frameworks, NEW n \in Writers(surface) \ Unlisted, NEW a,
         FrameworkClass(surface, n, a) = Skip
  PROVE  surface = "langchain" /\ n = "addMessages" /\ a.number = 0
<1>1. n \in DOMAIN Table(surface, a) /\ IsChange(Table(surface, a)[n])
  BY FrameworkWriters
<1>2. n = "addMessages" /\ a.number = 0
  BY <1>1, ChangesAreRecorded DEF FrameworkClass
<1>3. surface = "langchain"
  BY <1>2 DEF Writers, Frameworks
<1> QED  BY <1>2, <1>3

(* A call as it is made: unaudited and changing something only by the        *)
(* host's own choice, or unlisted.                                           *)
LEMMA CallingForetells ==
  ASSUME AnnounceInv, NEW c \in Calls, Calling(c)
  PROVE  Foretold(c)' /\ UNCHANGED <<options, effect>>
<1>1. CallsInv /\ TypeOK /\ Sound(c)
  BY DEF AnnounceInv, CallsInv
<1> DEFINE Allowed(s, n, class, a) ==
             class = Skip /\ n \in Writers(s) =>
                \/ s \in GBrain /\ n \in options.skips
                \/ n \in Unlisted /\ ~(s \in GBrain /\ n \in options.optsIn)
                \/ s = "langchain" /\ n = "addMessages" /\ a.number = 0
<1>2. PICK s, n, class, a, identity : Make(c, s, n, class, a, identity) /\ Allowed(s, n, class, a)
  <2>1. CASE CallOperation(c)
    BY <2>1, OperationIsClassified DEF CallOperation, GBrain
  <2>2. CASE CallEngine(c) \/ CallInTransaction(c)
    <3>1. Writers("transaction") = Writers("engine")
      BY DEF Writers
    <3>2. PICK s \in {"engine", "transaction"} : CallMethod(c, s)
      BY <2>2 DEF CallEngine, CallInTransaction
    <3> QED  BY <3>1, <3>2, EngineIsClassified DEF CallMethod, GBrain, GBrainEngine
  <2>3. CASE CallConnection(c)
    <3>1. Writers("connection") = {"executeRaw"} /\ "executeRaw" \in Writers("engine")
      BY DEF Writers
    <3> QED  BY <2>3, <3>1, EngineIsClassified DEF CallConnection, GBrain, GBrainEngine
  <2>4. CASE CallFramework(c)
    <3>1. \A s \in Frameworks : s \notin GBrain
      BY DEF Frameworks, GBrain, GBrainEngine
    <3> QED  BY <2>4, <3>1, FrameworkIsClassified DEF CallFramework
  <2> QED  BY <2>1, <2>2, <2>3, <2>4 DEF Calling
<1>3. /\ pc[c] = "new" /\ UNCHANGED <<options, effect>>
      /\ effect'[c] = "none"
  BY <1>1, <1>2 DEF Make, Sound, RowsFollow
<1>4. /\ call'[c].class = class /\ call'[c].surface = s /\ call'[c].name = n /\ call'[c].args = a
  BY <1>1, <1>2 DEF Make, NoCall, TypeOK
<1>5. class = Skip /\ Changes(c)' => PassedOn(c)'
  BY <1>2, <1>3, <1>4 DEF Changes, Numbers, PassedOn
<1> QED  BY <1>3, <1>4, <1>5 DEF Foretold

LEMMA RunAuditedForetells ==
  ASSUME AnnounceInv, NEW c \in Calls, RunAudited(c)
  PROVE  Foretold(c)' /\ UNCHANGED <<options, effect>>
<1>1. CallsInv /\ TypeOK /\ Sound(c) /\ pc[c] = "auditor"
  BY DEF AnnounceInv, CallsInv, RunAudited
<1>2. effect' = effect /\ effect[c] = "none" /\ options' = options /\ call[c].class # Skip
  BY <1>1 DEF RunAudited, Sound, RowsFollow
<1>3. call'[c].class = call[c].class
  BY <1>1 DEF RunAudited, Numbered, TypeOK, Fields
<1> QED  BY <1>2, <1>3 DEF Foretold

LEMMA HandlingForetells ==
  ASSUME AnnounceInv, NEW c \in Calls, Handling(c)
  PROVE  Foretold(c)' /\ options' = options
<1>1. CallsInv /\ TypeOK /\ Sound(c) /\ Foretold(c)
  BY DEF AnnounceInv, CallsInv
<1>2. call' = call /\ options' = options /\ pc[c] # "new"
  BY DEF Handling, AuditorFails, MethodMissing, Mutate, HandlerReturns, HandlerThrows, BareEnds,
     Yield, ListingEnds, ListingThrows
<1>3. Changes(c)' = Changes(c) /\ PassedOn(c)' = PassedOn(c)
  BY <1>2 DEF Changes, Numbers, PassedOn
<1>4. effect'[c] # "none" => effect[c] # "none" \/ Changes(c)
  BY DEF Handling, AuditorFails, MethodMissing, Mutate, HandlerReturns, HandlerThrows, BareEnds,
     Yield, ListingEnds, ListingThrows
<1>5. pc'[c] = "ended" /\ call[c].class # Skip /\ rows'[c] = <<>> => effect'[c] = "none"
  <2>1. CASE AuditorFails(c) \/ MethodMissing(c)
    BY <1>1, <2>1 DEF AuditorFails, MethodMissing, Sound, RowsFollow
  <2>2. CASE Mutate(c) \/ Yield(c)
    BY <1>1, <2>2 DEF Mutate, Yield, TypeOK
  <2>3. CASE BareEnds(c)
    BY <1>1, <2>3 DEF BareEnds, Sound, RowsFollow
  <2>4. CASE HandlerReturns(c) \/ HandlerThrows(c) \/ ListingEnds(c) \/ ListingThrows(c)
    <3> DEFINE x == Intent(call[c])
    <3>1. PICK y : Record(c, <<y>>) \/ RecordFails(c, <<y>>)
      BY <2>4 DEF HandlerReturns, HandlerThrows, ListingEnds, ListingThrows
    <3>2. rows[c] = <<x>> /\ DOMAIN rows = Calls
      BY <1>1, <2>4 DEF HandlerReturns, HandlerThrows, ListingEnds, ListingThrows, Sound, RowsFollow, TypeOK
    <3> HIDE DEF x
    <3>3. /\ <<x>> \o <<y>> = <<x, y>>
          /\ \A k \in 0 .. Len(<<y>>) : <<x>> \o SubSeq(<<y>>, 1, k) \in {<<x>>, <<x, y>>}
      BY Recorded
    <3>4. rows'[c] \in {<<x>>, <<x, y>>}
      BY <3>1, <3>2, <3>3 DEF Record, RecordFails
    <3>5. <<x>> # <<>> /\ <<x, y>> # <<>>
      BY Elements
    <3> QED  BY <3>4, <3>5
  <2> QED  BY <2>1, <2>2, <2>3, <2>4 DEF Handling
<1> QED  BY <1>1, <1>2, <1>3, <1>4, <1>5 DEF Foretold

LEMMA AnnounceNext == AnnounceInv /\ [Next]_vars => AnnounceInv'
<1> SUFFICES ASSUME AnnounceInv, [Next]_vars  PROVE AnnounceInv'
  OBVIOUS
<1>1. CallsInv' /\ CallsInv
  BY CallsNext DEF AnnounceInv
<1>2. ASSUME NEW c \in Calls, Calling(c) \/ RunAudited(c) \/ Handling(c), NEW d \in Calls
      PROVE  Foretold(d)'
  <2>1. StepOf(c)
    BY <1>1, <1>2, CallKeeps
  <2>2. Foretold(c)' /\ options' = options
    BY <1>2, CallingForetells, RunAuditedForetells, HandlingForetells
  <2>3. CASE d # c
    <3>1. /\ pc'[d] = pc[d] /\ call'[d] = call[d] /\ rows'[d] = rows[d] /\ effect'[d] = effect[d]
      BY <2>1, <2>3 DEF StepOf
    <3> QED  BY <2>2, <3>1 DEF AnnounceInv, Foretold, PassedOn, Changes, Numbers
  <2> QED  BY <2>2, <2>3
<1>3. ASSUME UNCHANGED <<options, pc, call, rows>>, NEW d \in Calls,
             effect'[d] = "none" <=> effect[d] = "none"
      PROVE  Foretold(d)'
  BY <1>3 DEF AnnounceInv, Foretold, PassedOn, Changes, Numbers
<1>4. ASSUME NEW c \in Calls, CreateAuditor(c), NEW d \in Calls  PROVE Foretold(d)'
  BY <1>3, <1>4 DEF CreateAuditor
<1>5. ASSUME CommitTransaction \/ RollbackTransaction, NEW d \in Calls  PROVE Foretold(d)'
  BY <1>3, <1>5 DEF CommitTransaction, RollbackTransaction, EndTransaction
<1>6. ASSUME UNCHANGED vars, NEW d \in Calls  PROVE Foretold(d)'
  BY <1>3, <1>6 DEF vars
<1>7. \A d \in Calls : Foretold(d)'
  BY <1>2, <1>4, <1>5, <1>6 DEF Next, Calling, Handling
<1> QED  BY <1>1, <1>7 DEF AnnounceInv

LEMMA AnnounceInit == Init => AnnounceInv
BY CallsInit DEF Init, AnnounceInv, Foretold

(* No adapter lets a change through before its intent row is written: the    *)
(* classification (classifyOperation, classifyEngineMethod, the wrap         *)
(* functions) knows every method that changes something but the unlisted     *)
(* ones, which pass through by design, and runAudited calls no handler       *)
(* without the row.                                                          *)
THEOREM ChangesAreAnnounced == Spec => []EffectIsAnnounced
<1>1. AnnounceInv => EffectIsAnnounced
  <2> SUFFICES ASSUME AnnounceInv, NEW c \in Calls, effect[c] # "none", ~PassedOn(c)
               PROVE  rows[c] # <<>> /\ rows[c][1].phase = "intent"
    BY DEF EffectIsAnnounced
  <2> DEFINE x == Intent(call[c])
  <2>1. TypeOK /\ RowsFollow(c) /\ RowsConclude(c) /\ Foretold(c)
    BY DEF AnnounceInv, CallsInv, Sound
  <2>2. pc[c] \in {"running", "ended"} /\ call[c].class # Skip
    BY <2>1 DEF TypeOK, Underway, RowsFollow, Foretold
  <2>3. rows[c] = <<x>> \/ \E y : rows[c] = <<x, y>>
    BY <2>1, <2>2 DEF RowsFollow, RowsConclude, Foretold
  <2>4. x.phase = "intent"
    BY Statuses
  <2> HIDE DEF x
  <2>5. rows[c] # <<>> /\ rows[c][1] = x
    <3>1. /\ <<x>> # <<>> /\ <<x>>[1] = x
          /\ \A y : <<x, y>> # <<>> /\ <<x, y>>[1] = x
      OBVIOUS
    <3> QED  BY <2>3, <3>1
  <2> QED  BY <2>4, <2>5
<1> QED  BY <1>1, AnnounceInit, AnnounceNext, PTL DEF Spec

-------------------------------------------------------------------------------
(* Which thing a row is about. One table puts the paths of GBrain's          *)
(* operations together, another those of its engine's methods.               *)
TargetPath(b, t) ==
    CASE t[1] = "page"         -> PagePath(b, t[2])
      [] t[1] = "link"         -> LinkPath(b, t[2], t[3], t[4])
      [] t[1] \in DOMAIN Folder -> PagePath(b, t[2]) \o <<Folder[t[1]], Segment(t[3])>>

\* A link has a type, be it the one that pathSegment would give it.
IsTarget(t) == \/ \E x : t = <<"page", x>>
               \/ \E k \in DOMAIN Folder : \E x, y : t = <<k, x, y>>
               \/ \E x, y, z : t = <<"link", x, y, z>> /\ Given(z, "link") = z

\* STRING; the provers do not know that a literal is of it.
Names == STRING \cup {"brains", "pages", "links", "tags", "timeline", "raw-data", "versions",
                       "unknown", "link"}

LEMMA Literals ==
  /\ "brains" \in Names /\ "pages" \in Names /\ "links" \in Names
  /\ "tags" \in Names /\ "timeline" \in Names /\ "raw-data" \in Names /\ "versions" \in Names
  /\ "unknown" \in Names /\ "link" \in Names
BY DEF Names

\* pathSegment does not confuse the name with a missing one.
Proper(v) == v = None \/ (v \in Names /\ v # "unknown" /\ v \notin Missing)

LEMMA NoneIsMissing == None \in Missing
BY DEF Missing

LEMMA ProperSegments ==
  ASSUME NEW v, NEW w, Proper(v), Proper(w)
  PROVE  /\ Segment(v) \in Names
         /\ Segment(v) = Segment(w) => v = w
<1>1. "unknown" \in Names
  BY Literals
<1> QED  BY <1>1, NoneIsMissing DEF Proper, Segment, Given

LEMMA ProperType ==
  ASSUME NEW z, Proper(z), Given(z, "link") = z
  PROVE  z \in Names
<1>1. "link" \in Names
  BY Literals
<1> QED  BY <1>1, NoneIsMissing DEF Proper, Given

(* The segments of a slug are those of no other slug.                        *)
LEMMA SlugSegments ==
  ASSUME NEW S, Names \subseteq S, NEW v, Proper(v)
  PROVE  SlugPath(v) \in Seq(S)
<1>1. CASE v \in DOMAIN Split
  <2>1. Split[v] \in Seq(STRING) /\ STRING \subseteq S
    BY <1>1, SplitAssumption DEF Names
  <2>2. Split[v] \in Seq(S)
    BY <2>1, SeqMonotonic
  <2> QED  BY <1>1, <2>2 DEF SlugPath
<1>2. CASE v \notin DOMAIN Split
  <2>1. Segment(v) \in S
    BY ProperSegments
  <2> QED  BY <1>2, <2>1 DEF SlugPath, Segment
<1> QED  BY <1>1, <1>2

LEMMA SlugsDiffer ==
  ASSUME NEW v, NEW w, Proper(v), Proper(w), SlugPath(v) = SlugPath(w)
  PROVE  v = w
<1>1. \A x : x \in DOMAIN Split => Len(SlugPath(x)) > 1 /\ SlugPath(x) = Split[x]
  BY SplitAssumption DEF SlugPath
<1>2. \A x : x \notin DOMAIN Split => SlugPath(x) = <<Segment(x)>> /\ ~(Len(SlugPath(x)) > 1)
  BY DEF SlugPath, Segment
<1>3. CASE v \in DOMAIN Split
  <2>1. w \in DOMAIN Split
    BY <1>1, <1>2, <1>3
  <2> QED  BY <1>1, <1>3, <2>1, SplitAssumption
<1>4. CASE v \notin DOMAIN Split
  <2>1. w \notin DOMAIN Split
    BY <1>1, <1>2, <1>4
  <2>2. <<Segment(v)>> = <<Segment(w)>>
    BY <1>2, <1>4, <2>1
  <2> QED  BY <2>2, ProperSegments
<1> QED  BY <1>3, <1>4

LEMMA Halves ==
  ASSUME NEW S, NEW p \in Seq(S), NEW q \in Seq(S), NEW x \in Seq(S), NEW y \in Seq(S),
         Len(p) = Len(q), p \o x = q \o y
  PROVE  p = q /\ x = y
<1>1. \A i \in 1 .. Len(p) : (p \o x)[i] = p[i]
  BY ConcatProperties
<1>2. \A i \in 1 .. Len(q) : (q \o y)[i] = q[i]
  BY ConcatProperties
<1>3. p = q
  BY <1>1, <1>2, SeqEqual
<1> QED  BY <1>3, ConcatSimplifications

(* Each kind of target is one. *)
LEMMA TagIsTarget == ASSUME NEW x, NEW y PROVE IsTarget(<<"tag", x, y>>)
BY "tag" \in DOMAIN Folder DEF IsTarget, Folder

LEMMA EntryIsTarget == ASSUME NEW x, NEW y PROVE IsTarget(<<"entry", x, y>>)
BY "entry" \in DOMAIN Folder DEF IsTarget, Folder

LEMMA RawIsTarget == ASSUME NEW x, NEW y PROVE IsTarget(<<"raw", x, y>>)
BY "raw" \in DOMAIN Folder DEF IsTarget, Folder

LEMMA VersionIsTarget == ASSUME NEW x, NEW y PROVE IsTarget(<<"version", x, y>>)
BY "version" \in DOMAIN Folder DEF IsTarget, Folder

LEMMA PageTarget ==
  ASSUME NEW b, NEW x
  PROVE  TargetPath(b, <<"page", x>>) = PagePath(b, x)
<1>1. "page" \notin DOMAIN Folder
  BY DEF Folder
<1> QED  BY <1>1 DEF TargetPath

LEMMA LinkTarget ==
  ASSUME NEW b, NEW x, NEW y, NEW z
  PROVE  TargetPath(b, <<"link", x, y, z>>) = LinkPath(b, x, y, z)
<1>1. "link" \notin DOMAIN Folder
  BY DEF Folder
<1> QED  BY <1>1 DEF TargetPath

LEMMA UnderTarget ==
  ASSUME NEW b, NEW k \in DOMAIN Folder, NEW x, NEW y
  PROVE  TargetPath(b, <<k, x, y>>) = PagePath(b, x) \o <<Folder[k], Segment(y)>>
<1>1. k \notin {"page", "link"}
  BY DEF Folder
<1> QED  BY <1>1 DEF TargetPath

(* Below the brain, the paths of pages and those of links part; the rest of  *)
(* a path is the slugs and what stands between or under them.                *)
Root(b, k)         == BrainPath(b) \o <<k>>
Segments(b)        == Names \cup {Segment(b)}
UnderRest(k, x, y) == SlugPath(x) \o <<Folder[k], Segment(y)>>
LinkRest(x, y, z)  == SlugPath(x) \o (<<z>> \o SlugPath(y))

LEMMA Roots ==
  ASSUME NEW S, NEW b, Segment(b) \in S, Names \subseteq S, NEW k \in Names
  PROVE  Root(b, k) \in Seq(S) /\ Len(Root(b, k)) = 3 /\ Root(b, k)[3] = k
<1> DEFINE p == BrainPath(b)
           q == <<k>>
<1>1. p \in Seq(S) /\ Len(p) = 2
  <2>1. "brains" \in Names
    BY Literals
  <2>2. "brains" \in S /\ Segment(b) \in S
    BY <2>1
  <2> QED  BY <2>2 DEF BrainPath
<1>2. q \in Seq(S) /\ Len(q) = 1 /\ q[1] = k
  <2>1. k \in S
    OBVIOUS
  <2> QED  BY <2>1
<1> HIDE DEF p, q
<1>3. /\ p \o q \in Seq(S) /\ Len(p \o q) = 3
      /\ (p \o q)[3] = IF 3 <= Len(p) THEN p[3] ELSE q[3 - Len(p)]
  BY <1>1, <1>2, ConcatProperties
<1> QED  BY <1>1, <1>2, <1>3 DEF Root, p, q

LEMMA FolderNames ==
  ASSUME NEW k \in DOMAIN Folder  PROVE Folder[k] \in Names
<1>1. "tags" \in Names /\ "timeline" \in Names /\ "raw-data" \in Names /\ "versions" \in Names
  BY Literals
<1> QED  BY <1>1 DEF Folder

LEMMA Rests ==
  ASSUME NEW S, Names \subseteq S, NEW x, NEW y, Proper(x), Proper(y)
  PROVE  /\ \A k \in DOMAIN Folder : /\ UnderRest(k, x, y) \in Seq(S)
                                     /\ <<Folder[k], Segment(y)>> \in Seq(S)
                                     /\ Len(UnderRest(k, x, y)) = Len(SlugPath(x)) + 2
         /\ \A z \in Names : /\ LinkRest(x, y, z) \in Seq(S)
                              /\ <<z>> \in Seq(S) /\ <<z>> \o SlugPath(y) \in Seq(S)
<1>1. SlugPath(x) \in Seq(S) /\ SlugPath(y) \in Seq(S)
  BY SlugSegments
<1>2. Segment(y) \in S
  BY ProperSegments
<1>3. \A k \in DOMAIN Folder : Folder[k] \in S
  BY FolderNames
<1>4. \A k \in DOMAIN Folder : /\ <<Folder[k], Segment(y)>> \in Seq(S)
                               /\ Len(<<Folder[k], Segment(y)>>) = 2
  BY <1>2, <1>3
<1>5. ASSUME NEW z \in Names  PROVE <<z>> \in Seq(S) /\ <<z>> \o SlugPath(y) \in Seq(S)
  <2>1. z \in S
    OBVIOUS
  <2>2. <<z>> \in Seq(S)
    BY <2>1
  <2> QED  BY <1>1, <2>2, ConcatProperties
<1> QED  BY <1>1, <1>4, <1>5, ConcatProperties DEF UnderRest, LinkRest

LEMMA PageForm ==
  ASSUME NEW b, NEW x
  PROVE  PagePath(b, x) = Root(b, "pages") \o SlugPath(x)
BY DEF PagePath, Root

LEMMA UnderForm ==
  ASSUME NEW b, NEW k \in DOMAIN Folder, NEW x, NEW y, Proper(x), Proper(y)
  PROVE  PagePath(b, x) \o <<Folder[k], Segment(y)>> = Root(b, "pages") \o UnderRest(k, x, y)
<1> DEFINE S == Names \cup {Segment(b)}
           f == <<Folder[k], Segment(y)>>
<1>1. Segment(b) \in S /\ Names \subseteq S
  OBVIOUS
<1> HIDE DEF S
<1>2. Root(b, "pages") \in Seq(S) /\ SlugPath(x) \in Seq(S) /\ f \in Seq(S)
  <2>1. "pages" \in Names
    BY Literals
  <2>2. Root(b, "pages") \in Seq(S)
    BY <1>1, <2>1, Roots
  <2>3. SlugPath(x) \in Seq(S)
    BY <1>1, SlugSegments
  <2>4. f \in Seq(S)
    BY <1>1, Rests
  <2> QED  BY <2>2, <2>3, <2>4
<1> HIDE DEF f
<1>3. (Root(b, "pages") \o SlugPath(x)) \o f = Root(b, "pages") \o (SlugPath(x) \o f)
  BY <1>2, ConcatAssociative
<1> QED  BY <1>3, PageForm DEF UnderRest, f

RightToLeft(r, p, m, q) == ((r \o p) \o m) \o q = r \o (p \o (m \o q))

LEMMA FourParts ==
  ASSUME NEW S, NEW r \in Seq(S), NEW p \in Seq(S), NEW m \in Seq(S), NEW q \in Seq(S)
  PROVE  RightToLeft(r, p, m, q)
<1> DEFINE rp == r \o p
           mq == m \o q
<1>1. rp \in Seq(S) /\ mq \in Seq(S)
  BY ConcatProperties
<1> HIDE DEF rp, mq
<1>2. (rp \o m) \o q = rp \o (m \o q)
  BY <1>1, ConcatAssociative
<1>3. (r \o p) \o mq = r \o (p \o mq)
  BY <1>1, ConcatAssociative
<1> QED  BY <1>2, <1>3 DEF RightToLeft, rp, mq

LEMMA LinkForm ==
  ASSUME NEW b, NEW x, NEW y, NEW z \in Names, Given(z, "link") = z, Proper(x), Proper(y)
  PROVE  LinkPath(b, x, y, z) = Root(b, "links") \o LinkRest(x, y, z)
<1> DEFINE S == Names \cup {Segment(b)}
           r == Root(b, "links")
           p == SlugPath(x)
           q == SlugPath(y)
           m == <<z>>
<1>1. Segment(b) \in S /\ Names \subseteq S
  OBVIOUS
<1> HIDE DEF S
<1>2. r \in Seq(S) /\ p \in Seq(S) /\ q \in Seq(S) /\ m \in Seq(S)
  <2>1. "links" \in Names
    BY Literals
  <2>2. r \in Seq(S)
    BY <1>1, <2>1, Roots
  <2>3. p \in Seq(S) /\ q \in Seq(S)
    BY <1>1, SlugSegments
  <2>4. m \in Seq(S)
    BY <1>1, Rests
  <2> QED  BY <2>2, <2>3, <2>4
<1>3. LinkPath(b, x, y, z) = ((r \o p) \o m) \o q
  BY DEF LinkPath, Root
<1>4. LinkRest(x, y, z) = p \o (m \o q)
  BY DEF LinkRest
<1> HIDE DEF r, p, q, m
<1>5. ((r \o p) \o m) \o q = r \o (p \o (m \o q))
  <2>1. RightToLeft(r, p, m, q)
    BY <1>2, FourParts
  <2> QED  BY <2>1 DEF RightToLeft
<1> QED  BY <1>3, <1>4, <1>5 DEF r

(* Kind by kind: what two equal paths say of their targets.                  *)
LEMMA SameUnder ==
  ASSUME NEW k \in DOMAIN Folder, NEW l \in DOMAIN Folder, NEW x, NEW y, NEW v, NEW w,
         Proper(x), Proper(y), Proper(v), Proper(w), UnderRest(k, x, y) = UnderRest(l, v, w)
  PROVE  k = l /\ x = v /\ y = w
<1> DEFINE f == <<Folder[k], Segment(y)>>
           g == <<Folder[l], Segment(w)>>
           p == SlugPath(x)
           q == SlugPath(v)
<1>1. f \in Seq(Names) /\ g \in Seq(Names) /\ p \in Seq(Names) /\ q \in Seq(Names)
  BY Rests, SlugSegments
<1>2. Len(p) = Len(q)
  <2>1. Len(UnderRest(k, x, y)) = Len(p) + 2 /\ Len(UnderRest(l, v, w)) = Len(q) + 2
    BY Rests
  <2> HIDE DEF p, q
  <2>2. Len(p) \in Nat /\ Len(q) \in Nat
    BY <1>1, LenProperties
  <2> QED  BY <2>1, <2>2
<1>3. p \o f = q \o g
  BY DEF UnderRest
<1>4. (f = g) => Folder[k] = Folder[l] /\ Segment(y) = Segment(w)
  OBVIOUS
<1> HIDE DEF f, g
<1>5. p = q /\ f = g
  <2> HIDE DEF p, q
  <2> QED  BY <1>1, <1>2, <1>3, Halves
<1>6. x = v
  BY <1>5, SlugsDiffer
<1>7. y = w /\ Folder[k] = Folder[l]
  BY <1>4, <1>5, ProperSegments
<1>8. k = l
  BY <1>7 DEF Folder
<1> QED  BY <1>6, <1>7, <1>8

LEMMA SameLink ==
  ASSUME NEW x, NEW y, NEW z \in Names, NEW u, NEW v, NEW w \in Names,
         Proper(x), Proper(y), Proper(u), Proper(v), LinkRest(x, y, z) = LinkRest(u, v, w),
         Len(SlugPath(x)) = Len(SlugPath(u))
  PROVE  x = u /\ y = v /\ z = w
<1> DEFINE p == SlugPath(x)
           q == SlugPath(u)
           f == <<z>> \o SlugPath(y)
           g == <<w>> \o SlugPath(v)
<1>1. /\ f \in Seq(Names) /\ g \in Seq(Names) /\ p \in Seq(Names) /\ q \in Seq(Names)
      /\ <<z>> \in Seq(Names) /\ <<w>> \in Seq(Names)
      /\ SlugPath(y) \in Seq(Names) /\ SlugPath(v) \in Seq(Names)
  BY Rests, SlugSegments
<1>2. p \o f = q \o g /\ Len(p) = Len(q)
  BY DEF LinkRest
<1>3. p = q /\ f = g
  <2> HIDE DEF p, q, f, g
  <2> QED  BY <1>1, <1>2, Halves
<1>4. <<z>> = <<w>> /\ SlugPath(y) = SlugPath(v)
  <2>1. Len(<<z>>) = Len(<<w>>)
    OBVIOUS
  <2> QED  BY <1>1, <1>3, <2>1, Halves
<1> QED  BY <1>3, <1>4, SlugsDiffer

SamePath(b, k, x, l, y) == Root(b, k) \o x = Root(b, l) \o y

LEMMA SameRest ==
  ASSUME NEW b, NEW k \in Names, NEW l \in Names, NEW x \in Seq(Segments(b)),
         NEW y \in Seq(Segments(b)), SamePath(b, k, x, l, y)
  PROVE  k = l /\ x = y
<1> DEFINE S == Segments(b)
<1>0. Segment(b) \in S /\ Names \subseteq S
  BY DEF Segments
<1> HIDE DEF S
<1>1. /\ Root(b, k) \in Seq(S) /\ Root(b, l) \in Seq(S)
      /\ Len(Root(b, k)) = Len(Root(b, l)) /\ Root(b, k)[3] = k /\ Root(b, l)[3] = l
  BY <1>0, Roots
<1>2. Root(b, k) = Root(b, l) /\ x = y
  <2>1. x \in Seq(S) /\ y \in Seq(S)
    BY DEF S
  <2> QED  BY <1>1, <2>1, Halves DEF SamePath
<1> QED  BY <1>1, <1>2

LEMMA PathsAreDistinct ==
  ASSUME NEW b, NEW t, NEW u, IsTarget(t), IsTarget(u),
         \A i \in DOMAIN t : Proper(t[i]), \A i \in DOMAIN u : Proper(u[i]),
         TargetPath(b, t) = TargetPath(b, u)
  PROVE  t = u \/ Coincide(t, u) \/ Coincide(u, t)
<1> DEFINE S == Segments(b)
           IsPage(s)  == \E x : s = <<"page", x>>
           IsUnder(s) == \E k \in DOMAIN Folder : \E x, y : s = <<k, x, y>>
           IsLink(s)  == \E x, y, z : s = <<"link", x, y, z>> /\ Given(z, "link") = z
           KindOf(s)  == IF IsLink(s) THEN "links" ELSE "pages"
           RestOf(s)  == IF IsPage(s) THEN SlugPath(s[2])
                         ELSE IF IsLink(s) THEN LinkRest(s[2], s[3], s[4])
                         ELSE UnderRest(s[1], s[2], s[3])
<1>1. Segment(b) \in S /\ Names \subseteq S
  BY DEF Segments
<1>2. ASSUME NEW s, IsTarget(s), \A i \in DOMAIN s : Proper(s[i])
      PROVE  /\ TargetPath(b, s) = Root(b, KindOf(s)) \o RestOf(s)
             /\ RestOf(s) \in Seq(S)
  <2> HIDE DEF S
  <2>1. CASE IsPage(s)
    <3>1. PICK x : s = <<"page", x>>
      BY <2>1
    <3>2. s[2] = x /\ 2 \in DOMAIN s /\ ~IsLink(s)
      BY <3>1
    <3>3. Proper(x)
      BY <1>2, <3>2
    <3>4. KindOf(s) = "pages" /\ RestOf(s) = SlugPath(x)
      BY <2>1, <3>2
    <3> HIDE DEF KindOf, RestOf
    <3> QED  BY <1>1, <3>1, <3>3, <3>4, PageTarget, PageForm, SlugSegments
  <2>2. CASE IsUnder(s)
    <3>1. PICK k \in DOMAIN Folder : \E x, y : s = <<k, x, y>>
      BY <2>2
    <3>2. PICK x, y : s = <<k, x, y>>
      BY <3>1
    <3>3. s[1] = k /\ s[2] = x /\ s[3] = y /\ 2 \in DOMAIN s /\ 3 \in DOMAIN s
      BY <3>2
    <3>4. k # "page" /\ k # "link"
      BY DEF Folder
    <3>5. ~IsPage(s) /\ ~IsLink(s)
      BY <3>2, <3>3, <3>4
    <3>6. Proper(x) /\ Proper(y)
      BY <1>2, <3>3
    <3>7. KindOf(s) = "pages" /\ RestOf(s) = UnderRest(k, x, y)
      BY <3>3, <3>5
    <3>8. UnderRest(k, x, y) \in Seq(S)
      BY <1>1, <3>6, Rests
    <3>9. TargetPath(b, s) = PagePath(b, x) \o <<Folder[k], Segment(y)>>
      BY <3>2, UnderTarget
    <3>10. PagePath(b, x) \o <<Folder[k], Segment(y)>> = Root(b, "pages") \o UnderRest(k, x, y)
      BY <3>6, UnderForm
    <3> HIDE DEF KindOf, RestOf
    <3> QED  BY <3>7, <3>8, <3>9, <3>10
  <2>3. CASE IsLink(s)
    <3>1. PICK x, y, z : s = <<"link", x, y, z>> /\ Given(z, "link") = z
      BY <2>3
    <3>2. s[2] = x /\ s[3] = y /\ s[4] = z /\ DOMAIN s = 1 .. 4
      BY <3>1
    <3>3. ~IsPage(s)
      BY <3>1
    <3>4. Proper(x) /\ Proper(y) /\ Proper(z)
      BY <1>2, <3>2
    <3>5. z \in Names
      BY <3>1, <3>4, ProperType
    <3>6. KindOf(s) = "links" /\ RestOf(s) = LinkRest(x, y, z)
      BY <2>3, <3>2, <3>3
    <3>7. TargetPath(b, s) = LinkPath(b, x, y, z)
      BY <3>1, LinkTarget
    <3>8. LinkPath(b, x, y, z) = Root(b, "links") \o LinkRest(x, y, z)
      BY <3>1, <3>4, <3>5, LinkForm
    <3>9. LinkRest(x, y, z) \in Seq(S)
      BY <1>1, <3>4, <3>5, Rests
    <3> HIDE DEF KindOf, RestOf
    <3> QED  BY <3>6, <3>7, <3>8, <3>9
  <2>4. IsPage(s) \/ IsUnder(s) \/ IsLink(s)
    BY <1>2 DEF IsTarget
  <2> HIDE DEF IsPage, IsUnder, IsLink, KindOf, RestOf
  <2> QED  BY <2>1, <2>2, <2>3, <2>4
<1>3. KindOf(t) \in Names /\ KindOf(u) \in Names
  BY Literals
<1>4. KindOf(t) = KindOf(u) /\ RestOf(t) = RestOf(u)
  <2> HIDE DEF S, KindOf, RestOf
  <2>1. Root(b, KindOf(t)) \o RestOf(t) = Root(b, KindOf(u)) \o RestOf(u)
    BY <1>2
  <2>2. RestOf(t) \in Seq(S) /\ RestOf(u) \in Seq(S)
    BY <1>2
  <2> DEFINE k == KindOf(t)
             l == KindOf(u)
             x == RestOf(t)
             y == RestOf(u)
  <2>3. k \in Names /\ l \in Names /\ SamePath(b, k, x, l, y)
    BY <1>3, <2>1 DEF SamePath
  <2> HIDE DEF k, l, x, y
  <2>4. x \in Seq(Segments(b)) /\ y \in Seq(Segments(b))
    BY <2>2 DEF x, y, S
  <2>5. k = l /\ x = y
    BY <2>3, <2>4, SameRest
  <2> QED  BY <2>5 DEF k, l, x, y
<1>5. \A s : IsPage(s) \/ IsUnder(s) <=> IsTarget(s) /\ KindOf(s) = "pages"
  <2>1. "link" \notin DOMAIN Folder
    BY DEF Folder
  <2> QED  BY <2>1 DEF IsTarget
<1>6. CASE IsLink(t) /\ IsLink(u)
  <2>1. PICK x, y, z : t = <<"link", x, y, z>> /\ Given(z, "link") = z
    BY <1>6
  <2>2. PICK p, q, r : u = <<"link", p, q, r>> /\ Given(r, "link") = r
    BY <1>6
  <2>3. /\ t[1] = "link" /\ t[2] = x /\ t[3] = y /\ t[4] = z /\ DOMAIN t = 1 .. 4
        /\ u[1] = "link" /\ u[2] = p /\ u[3] = q /\ u[4] = r /\ DOMAIN u = 1 .. 4
    BY <2>1, <2>2
  <2>4. Proper(x) /\ Proper(y) /\ Proper(z) /\ Proper(p) /\ Proper(q) /\ Proper(r)
    BY <2>3
  <2>5. z \in Names /\ r \in Names
    BY <2>1, <2>2, <2>4, ProperType
  <2>6. LinkRest(x, y, z) = LinkRest(p, q, r)
    <3>1. ~IsPage(t) /\ ~IsPage(u)
      BY <2>1, <2>2
    <3> QED  BY <1>4, <1>6, <2>3, <3>1
  <2>7. CASE Len(SlugPath(x)) # Len(SlugPath(p))
    BY <2>3, <2>7 DEF Coincide
  <2>8. CASE Len(SlugPath(x)) = Len(SlugPath(p))
    BY <2>1, <2>2, <2>4, <2>5, <2>6, <2>8, SameLink
  <2> QED  BY <2>7, <2>8
<1>7. ASSUME NEW s, NEW r, IsPage(s), IsUnder(r), RestOf(s) = RestOf(r)
      PROVE  Coincide(s, r)
  <2>1. PICK x : s = <<"page", x>>
    BY <1>7
  <2>2. PICK k \in DOMAIN Folder : \E v, y : r = <<k, v, y>>
    BY <1>7
  <2>3. PICK v, y : r = <<k, v, y>>
    BY <2>2
  <2>4. s[1] = "page" /\ s[2] = x /\ r[1] = k /\ r[2] = v /\ r[3] = y
    BY <2>1, <2>3
  <2>5. k # "page" /\ k # "link"
    BY DEF Folder
  <2>6. ~IsPage(r) /\ ~IsLink(r)
    BY <2>3, <2>4, <2>5
  <2>7. SlugPath(x) = UnderRest(k, v, y)
    BY <1>7, <2>4, <2>6
  <2> QED  BY <2>4, <2>7 DEF Coincide, UnderRest
<1>8. CASE IsPage(t) /\ IsPage(u)
  <2>1. PICK x : t = <<"page", x>>
    BY <1>8
  <2>2. PICK y : u = <<"page", y>>
    BY <1>8
  <2>3. t[2] = x /\ u[2] = y /\ 2 \in DOMAIN t /\ 2 \in DOMAIN u
    BY <2>1, <2>2
  <2>4. Proper(x) /\ Proper(y) /\ SlugPath(x) = SlugPath(y)
    BY <1>4, <1>8, <2>3
  <2> QED  BY <2>1, <2>2, <2>4, SlugsDiffer
<1>9. CASE IsUnder(t) /\ IsUnder(u)
  <2>1. PICK k \in DOMAIN Folder : \E x, y : t = <<k, x, y>>
    BY <1>9
  <2>2. PICK x, y : t = <<k, x, y>>
    BY <2>1
  <2>3. PICK l \in DOMAIN Folder : \E v, w : u = <<l, v, w>>
    BY <1>9
  <2>4. PICK v, w : u = <<l, v, w>>
    BY <2>3
  <2>5. /\ t[1] = k /\ t[2] = x /\ t[3] = y /\ 2 \in DOMAIN t /\ 3 \in DOMAIN t
        /\ u[1] = l /\ u[2] = v /\ u[3] = w /\ 2 \in DOMAIN u /\ 3 \in DOMAIN u
    BY <2>2, <2>4
  <2>6. k \notin {"page", "link"} /\ l \notin {"page", "link"}
    BY DEF Folder
  <2>7. ~IsPage(t) /\ ~IsLink(t) /\ ~IsPage(u) /\ ~IsLink(u)
    BY <2>2, <2>4, <2>5, <2>6
  <2>8. UnderRest(k, x, y) = UnderRest(l, v, w)
    BY <1>4, <2>5, <2>7
  <2>9. Proper(x) /\ Proper(y) /\ Proper(v) /\ Proper(w)
    BY <2>5
  <2> HIDE DEF RestOf, KindOf
  <2> QED  BY <2>2, <2>4, <2>8, <2>9, SameUnder
<1>10. /\ IsPage(t) \/ IsUnder(t) \/ IsLink(t)
       /\ IsPage(u) \/ IsUnder(u) \/ IsLink(u)
  BY DEF IsTarget
<1>11. IsLink(t) <=> IsLink(u)
  BY <1>4
<1> HIDE DEF IsPage, IsUnder, IsLink, KindOf, RestOf
<1> QED  BY <1>4, <1>5, <1>6, <1>7, <1>8, <1>9, <1>10, <1>11

(* Each table gives its methods the path of their target,                    *)
OperationTargets == {"get_page", "put_page", "delete_page", "add_tag", "remove_tag", "add_link",
                     "add_timeline_entry", "put_raw_data", "revert_version"}
EngineTargets    == {"getPage", "putPage", "deletePage", "addTag", "removeTag", "addLink",
                     "removeLink", "addTimelineEntry", "putRawData", "revertToVersion"}

LEMMA TagPathIs ==
  ASSUME NEW b, NEW x, NEW y
  PROVE  PagePath(b, x) \o <<"tags", Segment(y)>> = TargetPath(b, <<"tag", x, y>>)
<1>1. "tag" \in DOMAIN Folder /\ Folder["tag"] = "tags"
  BY DEF Folder
<1> QED  BY <1>1, UnderTarget

LEMMA EntryPathIs ==
  ASSUME NEW b, NEW x, NEW y
  PROVE  PagePath(b, x) \o <<"timeline", Segment(y)>> = TargetPath(b, <<"entry", x, y>>)
<1>1. "entry" \in DOMAIN Folder /\ Folder["entry"] = "timeline"
  BY DEF Folder
<1> QED  BY <1>1, UnderTarget

LEMMA RawPathIs ==
  ASSUME NEW b, NEW x, NEW y
  PROVE  PagePath(b, x) \o <<"raw-data", Segment(y)>> = TargetPath(b, <<"raw", x, y>>)
<1>1. "raw" \in DOMAIN Folder /\ Folder["raw"] = "raw-data"
  BY DEF Folder
<1> QED  BY <1>1, UnderTarget

LEMMA VersionPathIs ==
  ASSUME NEW b, NEW x, NEW y
  PROVE  PagePath(b, x) \o <<"versions", Segment(y)>> = TargetPath(b, <<"version", x, y>>)
<1>1. "version" \in DOMAIN Folder /\ Folder["version"] = "versions"
  BY DEF Folder
<1> QED  BY <1>1, UnderTarget

LEMMA LinkType ==
  ASSUME NEW v, Proper(Or(v, "link"))
  PROVE  Given(v, "link") = Or(v, "link") /\ Given(Or(v, "link"), "link") = Or(v, "link")
BY NoneIsMissing DEF Proper, Given, Or

LEMMA LinkPathIs ==
  ASSUME NEW b, NEW x, NEW y, NEW v, Proper(Or(v, "link"))
  PROVE  /\ LinkPath(b, x, y, v) = TargetPath(b, <<"link", x, y, Or(v, "link")>>)
         /\ IsTarget(<<"link", x, y, Or(v, "link")>>)
<1> DEFINE z == Or(v, "link")
<1>1. Given(v, "link") = Given(z, "link") /\ Given(z, "link") = z
  BY LinkType
<1> HIDE DEF z
<1>2. LinkPath(b, x, y, v) = LinkPath(b, x, y, z)
  BY <1>1 DEF LinkPath
<1> QED  BY <1>1, <1>2, LinkTarget DEF IsTarget, z

LEMMA OperationPaths ==
  ASSUME NEW b, NEW p, NEW n \in OperationTargets,
         \A i \in DOMAIN TargetOf(n, p) : Proper(TargetOf(n, p)[i])
  PROVE  /\ n \in DOMAIN OperationTable(b, p) /\ IsTarget(TargetOf(n, p))
         /\ OperationTable(b, p)[n].path = TargetPath(b, TargetOf(n, p))
<1> DEFINE t == TargetOf(n, p)
           page == PagePath(b, p.slug)
<1>1. CASE n \in {"get_page", "put_page", "delete_page"}
  <2>1. t = <<"page", p.slug>> /\ n \in DOMAIN OperationTable(b, p)
    BY <1>1 DEF TargetOf, OperationTable
  <2>2. OperationTable(b, p)[n].path = page
    BY <1>1 DEF OperationTable, View, Replace, Delete, Class
  <2> QED  BY <2>1, <2>2, PageTarget DEF IsTarget
<1>2. CASE n \in {"add_tag", "remove_tag"}
  <2>1. t = <<"tag", p.slug, p.tag>> /\ n \in DOMAIN OperationTable(b, p)
    BY <1>2 DEF TargetOf, OperationTable
  <2>2. OperationTable(b, p)[n].path = page \o <<"tags", Segment(p.tag)>>
    <3>1. OperationTable(b, p)["add_tag"].path = page \o <<"tags", Segment(p.tag)>>
      BY DEF OperationTable, TagPath, Insert, Class
    <3>2. OperationTable(b, p)["remove_tag"].path = page \o <<"tags", Segment(p.tag)>>
      BY DEF OperationTable, TagPath, Delete, Class
    <3> QED  BY <1>2, <3>1, <3>2
  <2>3. page \o <<"tags", Segment(p.tag)>> = TargetPath(b, <<"tag", p.slug, p.tag>>)
    BY TagPathIs
  <2>4. IsTarget(<<"tag", p.slug, p.tag>>)
    BY TagIsTarget
  <2> QED  BY <2>1, <2>2, <2>3, <2>4
<1>3. CASE n = "add_link"
  <2>1. /\ t = <<"link", p.from, p.to, Or(p.link_type, "link")>>
        /\ n \in DOMAIN OperationTable(b, p)
    BY <1>3 DEF TargetOf, OperationTable
  <2>2. OperationTable(b, p)[n].path = LinkPath(b, p.from, p.to, p.link_type)
    BY <1>3 DEF OperationTable, Insert, Class
  <2>3. Proper(Or(p.link_type, "link"))
    <3>1. 4 \in DOMAIN t /\ t[4] = Or(p.link_type, "link")
      BY <2>1
    <3> QED  BY <3>1
  <2> QED  BY <2>1, <2>2, <2>3, LinkPathIs
<1>4. CASE n = "add_timeline_entry"
  <2>1. t = <<"entry", p.slug, p.date>> /\ n \in DOMAIN OperationTable(b, p)
    BY <1>4 DEF TargetOf, OperationTable
  <2>2. OperationTable(b, p)[n].path = page \o <<"timeline", Segment(p.date)>>
    BY <1>4 DEF OperationTable, Insert, Class
  <2>3. page \o <<"timeline", Segment(p.date)>> = TargetPath(b, <<"entry", p.slug, p.date>>)
    BY EntryPathIs
  <2>4. IsTarget(<<"entry", p.slug, p.date>>)
    BY EntryIsTarget
  <2> QED  BY <2>1, <2>2, <2>3, <2>4
<1>5. CASE n = "put_raw_data"
  <2>1. t = <<"raw", p.slug, p.source>> /\ n \in DOMAIN OperationTable(b, p)
    BY <1>5 DEF TargetOf, OperationTable
  <2>2. OperationTable(b, p)[n].path = page \o <<"raw-data", Segment(p.source)>>
    BY <1>5 DEF OperationTable, Replace, Class
  <2>3. page \o <<"raw-data", Segment(p.source)>> = TargetPath(b, <<"raw", p.slug, p.source>>)
    BY RawPathIs
  <2>4. IsTarget(<<"raw", p.slug, p.source>>)
    BY RawIsTarget
  <2> QED  BY <2>1, <2>2, <2>3, <2>4
<1>6. CASE n = "revert_version"
  <2>1. t = <<"version", p.slug, p.version_id>> /\ n \in DOMAIN OperationTable(b, p)
    BY <1>6 DEF TargetOf, OperationTable
  <2>2. OperationTable(b, p)[n].path = page \o <<"versions", Segment(p.version_id)>>
    BY <1>6 DEF OperationTable, Replace, Class
  <2>3. page \o <<"versions", Segment(p.version_id)>> = TargetPath(b, <<"version", p.slug, p.version_id>>)
    BY VersionPathIs
  <2>4. IsTarget(<<"version", p.slug, p.version_id>>)
    BY VersionIsTarget
  <2> QED  BY <2>1, <2>2, <2>3, <2>4
<1> QED  BY <1>1, <1>2, <1>3, <1>4, <1>5, <1>6 DEF OperationTargets

LEMMA EnginePaths ==
  ASSUME NEW b, NEW a, NEW n \in EngineTargets,
         \A i \in DOMAIN TargetOf(n, a) : Proper(TargetOf(n, a)[i]),
         n = "addTimelineEntry" => Arg(a, 2) # None
  PROVE  /\ n \in DOMAIN EngineTable(b, a) /\ IsTarget(TargetOf(n, a))
         /\ EngineTable(b, a)[n].path = TargetPath(b, TargetOf(n, a))
<1> DEFINE t == TargetOf(n, a)
           page == PagePath(b, Arg(a, 1))
<1>1. CASE n \in {"getPage", "putPage", "deletePage"}
  <2>1. t = <<"page", Arg(a, 1)>> /\ n \in DOMAIN EngineTable(b, a)
    BY <1>1 DEF TargetOf, EngineTable
  <2>2. EngineTable(b, a)[n].path = page
    BY <1>1, SMTT(20) DEF EngineTable, View, Replace, Delete, Class
  <2> QED  BY <2>1, <2>2, PageTarget DEF IsTarget
<1>2. CASE n \in {"addTag", "removeTag"}
  <2>1. t = <<"tag", Arg(a, 1), Arg(a, 2)>> /\ n \in DOMAIN EngineTable(b, a)
    BY <1>2 DEF TargetOf, EngineTable
  <2>2. EngineTable(b, a)[n].path = page \o <<"tags", Segment(Arg(a, 2))>>
    <3>1. EngineTable(b, a)["addTag"].path = page \o <<"tags", Segment(Arg(a, 2))>>
      BY DEF EngineTable, TagPath, Insert, Class
    <3>2. EngineTable(b, a)["removeTag"].path = page \o <<"tags", Segment(Arg(a, 2))>>
      BY DEF EngineTable, TagPath, Delete, Class
    <3> QED  BY <1>2, <3>1, <3>2
  <2>3. page \o <<"tags", Segment(Arg(a, 2))>> = TargetPath(b, <<"tag", Arg(a, 1), Arg(a, 2)>>)
    BY TagPathIs
  <2>4. IsTarget(<<"tag", Arg(a, 1), Arg(a, 2)>>)
    BY TagIsTarget
  <2> QED  BY <2>1, <2>2, <2>3, <2>4
<1>3. ASSUME NEW i \in {3, 4}, n = IF i = 4 THEN "addLink" ELSE "removeLink"
      PROVE  /\ n \in DOMAIN EngineTable(b, a) /\ IsTarget(t)
             /\ EngineTable(b, a)[n].path = TargetPath(b, t)
  <2> DEFINE type == Arg(a, i)
  <2>1. /\ t = <<"link", Arg(a, 1), Arg(a, 2), Or(type, "link")>>
        /\ n \in DOMAIN EngineTable(b, a)
    BY <1>3 DEF TargetOf, EngineTable
  <2>2. EngineTable(b, a)[n].path = LinkPath(b, Arg(a, 1), Arg(a, 2), type)
    BY <1>3 DEF EngineTable, AddedLinkPath, Insert, Delete, Class
  <2>3. Proper(Or(type, "link"))
    <3>1. 4 \in DOMAIN t /\ t[4] = Or(type, "link")
      BY <2>1
    <3> QED  BY <3>1
  <2> QED  BY <2>1, <2>2, <2>3, LinkPathIs
<1>4. CASE n = "addTimelineEntry"
  <2>1. t = <<"entry", Arg(a, 1), Arg(a, 2)>> /\ n \in DOMAIN EngineTable(b, a)
    BY <1>4 DEF TargetOf, EngineTable
  <2>2. EngineTable(b, a)[n].path = page \o <<"timeline", Segment(Arg(a, 2))>>
    BY <1>4 DEF EngineTable, Insert, Class, Or
  <2>3. page \o <<"timeline", Segment(Arg(a, 2))>> = TargetPath(b, <<"entry", Arg(a, 1), Arg(a, 2)>>)
    BY EntryPathIs
  <2>4. IsTarget(<<"entry", Arg(a, 1), Arg(a, 2)>>)
    BY EntryIsTarget
  <2> QED  BY <2>1, <2>2, <2>3, <2>4
<1>5. CASE n = "putRawData"
  <2>1. t = <<"raw", Arg(a, 1), Arg(a, 2)>> /\ n \in DOMAIN EngineTable(b, a)
    BY <1>5 DEF TargetOf, EngineTable
  <2>2. EngineTable(b, a)[n].path = page \o <<"raw-data", Segment(Arg(a, 2))>>
    BY <1>5 DEF EngineTable, Replace, Class
  <2>3. page \o <<"raw-data", Segment(Arg(a, 2))>> = TargetPath(b, <<"raw", Arg(a, 1), Arg(a, 2)>>)
    BY RawPathIs
  <2>4. IsTarget(<<"raw", Arg(a, 1), Arg(a, 2)>>)
    BY RawIsTarget
  <2> QED  BY <2>1, <2>2, <2>3, <2>4
<1>6. CASE n = "revertToVersion"
  <2>1. t = <<"version", Arg(a, 1), Arg(a, 2)>> /\ n \in DOMAIN EngineTable(b, a)
    BY <1>6 DEF TargetOf, EngineTable
  <2>2. EngineTable(b, a)[n].path = page \o <<"versions", Segment(Arg(a, 2))>>
    BY <1>6 DEF EngineTable, Replace, Class
  <2>3. page \o <<"versions", Segment(Arg(a, 2))>> = TargetPath(b, <<"version", Arg(a, 1), Arg(a, 2)>>)
    BY VersionPathIs
  <2>4. IsTarget(<<"version", Arg(a, 1), Arg(a, 2)>>)
    BY VersionIsTarget
  <2> QED  BY <2>1, <2>2, <2>3, <2>4
<1> QED  BY <1>1, <1>2, <1>3, <1>4, <1>5, <1>6 DEF EngineTargets

(* and no method of another adapter is called like one of GBrain's.          *)
GBrainTargets == OperationTargets \cup EngineTargets

LEMMA TargetNames ==
  ASSUME NEW n, NEW a, TargetOf(n, a) # <<>>
  PROVE  n \in GBrainTargets
BY DEF TargetOf, GBrainTargets, OperationTargets, EngineTargets

LEMMA FrameworkNames ==
  ASSUME NEW surface \in Frameworks, NEW a, NEW n \in DOMAIN Table(surface, a)
  PROVE  n \notin GBrainTargets
<1> USE DEF Table, GBrainTargets, OperationTargets, EngineTargets
<1>1. CASE surface = "langgraph"
  BY <1>1 DEF LangGraphTable
<1>2. CASE surface = "langchain"
  BY <1>2 DEF LangChainTable
<1>3. CASE surface = "mastra"
  BY <1>3 DEF MastraTable
<1>4. CASE surface = "mem0"
  BY <1>4 DEF Mem0Table
<1>5. CASE surface = "letta"
  BY <1>5 DEF LettaTable, LettaBlocksTable
<1>6. CASE surface = "agent-letta"
  BY <1>6 DEF LettaTable, LettaAgentTable
<1> QED  BY <1>1, <1>2, <1>3, <1>4, <1>5, <1>6 DEF Frameworks

LEMMA OperationNames ==
  ASSUME NEW b, NEW p, NEW n \in GBrainTargets, n \in DOMAIN OperationTable(b, p)
  PROVE  n \in OperationTargets
BY DEF OperationTable, GBrainTargets, OperationTargets, EngineTargets

LEMMA EngineNames ==
  ASSUME NEW b, NEW a, NEW n \in GBrainTargets, n \in DOMAIN EngineTable(b, a)
  PROVE  n \in EngineTargets
BY DEF EngineTable, GBrainTargets, OperationTargets, EngineTargets

(* The paths can only tell apart what has a name: pathSegment writes         *)
(* "unknown" for a missing one, and a missing date is "unknown-date" to the  *)
(* engine alone. The rows are of one brain, and classed by the tables.       *)
ProperNames ==
    /\ \A o \in OptionSets : o.optsIn \cap GBrainTargets = {}
    /\ \A c \in Calls : \A m \in Menu[c] :
          /\ \A i \in DOMAIN TargetOf(m[2], m[3]) : Proper(TargetOf(m[2], m[3])[i])
          /\ m[2] = "addTimelineEntry" => Arg(m[3], 2) # None
          /\ m[1] = "operations" /\ m[2] \in OperationTargets => m[3].brain \in Missing

Brain == BrainIdFrom(None, options.brain)

HasPath(t, class) == /\ IsTarget(t) /\ \A i \in DOMAIN t : Proper(t[i])
                     /\ class.path = TargetPath(Brain, t)

Named(c) ==
    /\ /\ pc[c] # "new" /\ call[c].class \notin {Skip, Refused} /\ Target(c) # <<>>
       => HasPath(Target(c), call[c].class)
    /\ rows[c] # <<>> => /\ pc[c] # "new" /\ call[c].class \notin {Skip, Refused}
                         /\ rows[c][1].class = call[c].class

NameInv == ProperNames /\ CallsInv /\ options \in OptionSets /\ \A c \in Calls : Named(c)

LEMMA OperationHasPath ==
  ASSUME NameInv, NEW c \in Calls, NEW m \in Menu[c], m[1] = "operations",
         OperationClass(m[2], m[3]) \notin {Skip, Refused}, TargetOf(m[2], m[3]) # <<>>
  PROVE  HasPath(TargetOf(m[2], m[3]), OperationClass(m[2], m[3]))
<1> DEFINE n == m[2]
           p == m[3]
           b == BrainIdFrom(p.brain, options.brain)
           table == OperationTable(b, p)
<1>1. n \in GBrainTargets /\ n \notin options.optsIn
  BY TargetNames DEF NameInv, ProperNames
<1>2. OperationClass(n, p) = IF n \in options.skips THEN Skip
        ELSE IF IsClassified(n, table) THEN MaybeSkipRead(ClassOf(n, table), Scope(n))
        ELSE IF IsUnclassifiedWrite(Scope(n)) THEN Refused ELSE Skip
  BY DEF OperationClass
<1>3. IsClassified(n, table) /\ OperationClass(n, p) = MaybeSkipRead(ClassOf(n, table), Scope(n))
  BY <1>2
<1>4. n \in DOMAIN table /\ OperationClass(n, p) = table[n]
  BY <1>1, <1>3 DEF IsClassified, ClassOf, MaybeSkipRead
<1> HIDE DEF n, p, table, b
<1>5. n \in OperationTargets
  BY <1>1, <1>4, OperationNames DEF table
<1>6. /\ \A i \in DOMAIN TargetOf(n, p) : Proper(TargetOf(n, p)[i])
      /\ p.brain \in Missing
  BY <1>5 DEF NameInv, ProperNames, n, p
<1>7. b = BrainIdFrom(None, options.brain)
  BY <1>6 DEF b, BrainIdFrom, Given, Missing
<1>8. IsTarget(TargetOf(n, p)) /\ table[n].path = TargetPath(Brain, TargetOf(n, p))
  BY <1>5, <1>6, <1>7, OperationPaths DEF table, Brain
<1> QED  BY <1>4, <1>6, <1>8 DEF HasPath, n, p

LEMMA EngineHasPath ==
  ASSUME NameInv, NEW c \in Calls, NEW m \in Menu[c],
         EngineClass(m[2], m[3]) \notin {Skip, Refused}, TargetOf(m[2], m[3]) # <<>>
  PROVE  HasPath(TargetOf(m[2], m[3]), EngineClass(m[2], m[3]))
<1> DEFINE n == m[2]
           a == m[3]
           b == BrainIdFrom(None, options.brain)
           table == EngineTable(b, a)
<1>1. n \in GBrainTargets /\ n \notin options.optsIn
  BY TargetNames DEF NameInv, ProperNames
<1>2. EngineClass(n, a) = IF n \in options.skips \/ ~IsClassified(n, table) THEN Skip
                          ELSE MaybeSkipRead(ClassOf(n, table), "none")
  BY DEF EngineClass
<1>3. IsClassified(n, table) /\ EngineClass(n, a) = MaybeSkipRead(ClassOf(n, table), "none")
  BY <1>2
<1>4. n \in DOMAIN table /\ EngineClass(n, a) = table[n]
  BY <1>1, <1>3 DEF IsClassified, ClassOf, MaybeSkipRead
<1> HIDE DEF n, a, table, b
<1>5. n \in EngineTargets
  BY <1>1, <1>4, EngineNames DEF table
<1>6. /\ \A i \in DOMAIN TargetOf(n, a) : Proper(TargetOf(n, a)[i])
      /\ n = "addTimelineEntry" => Arg(a, 2) # None
  BY DEF NameInv, ProperNames, n, a
<1>7. IsTarget(TargetOf(n, a)) /\ table[n].path = TargetPath(Brain, TargetOf(n, a))
  BY <1>5, <1>6, EnginePaths DEF table, b, Brain
<1> QED  BY <1>4, <1>6, <1>7 DEF HasPath, n, a

LEMMA CallingNames ==
  ASSUME NameInv, NEW c \in Calls, Calling(c)
  PROVE  Named(c)' /\ options' = options
<1>1. TypeOK /\ Sound(c)
  BY DEF NameInv, CallsInv
<1>2. PICK s, n, class, a, identity :
         /\ Make(c, s, n, class, a, identity)
         /\ class \notin {Skip, Refused} /\ TargetOf(n, a) # <<>> => HasPath(TargetOf(n, a), class)
  <2>1. CASE CallOperation(c)
    BY <2>1, OperationHasPath DEF CallOperation
  <2>2. CASE CallEngine(c) \/ CallInTransaction(c)
    <3>1. PICK s : CallMethod(c, s)
      BY <2>2 DEF CallEngine, CallInTransaction
    <3> QED  BY <3>1, EngineHasPath DEF CallMethod
  <2>3. CASE CallConnection(c)
    <3>1. \A a : TargetOf("executeRaw", a) = <<>>
      BY TargetNames DEF GBrainTargets, OperationTargets, EngineTargets
    <3> QED  BY <2>3, <3>1 DEF CallConnection
  <2>4. CASE CallFramework(c)
    <3>1. PICK m \in Menu[c], who \in Who[c] :
             /\ m[1] \in Frameworks
             /\ Make(c, m[1], m[2], FrameworkClass(m[1], m[2], m[3]), m[3],
                     ResolveIdentity(Nobody, who.context))
      BY <2>4 DEF CallFramework
    <3>2. FrameworkClass(m[1], m[2], m[3]) # Skip => TargetOf(m[2], m[3]) = <<>>
      BY <3>1, FrameworkNames, TargetNames DEF FrameworkClass
    <3> QED  BY <3>1, <3>2
  <2> QED  BY <2>1, <2>2, <2>3, <2>4 DEF Calling
<1>3. options' = options /\ rows' = rows /\ rows[c] = <<>>
  BY <1>1, <1>2 DEF Make, Sound, RowsFollow
<1>4. call'[c].class = class /\ call'[c].name = n /\ call'[c].args = a
  BY <1>1, <1>2 DEF Make, NoCall, TypeOK
<1>5. Target(c)' = TargetOf(n, a)
  BY <1>4 DEF Target
<1>6. \A t, x : HasPath(t, x) => HasPath(t, x)'
  BY <1>3 DEF HasPath, Brain
<1> QED  BY <1>2, <1>3, <1>4, <1>5, <1>6 DEF Named

LEMMA RunAuditedNames ==
  ASSUME NameInv, NEW c \in Calls, RunAudited(c)
  PROVE  Named(c)' /\ options' = options
<1> DEFINE r == Numbered(c)
           x == Intent(r)
           y == Result(r, "validation_error")
<1>1. TypeOK /\ Sound(c) /\ Named(c)
  BY DEF NameInv, CallsInv
<1>2. /\ pc[c] = "auditor" /\ rows[c] = <<>> /\ call[c].class \notin {Skip, Refused}
      /\ options' = options /\ call' = [call EXCEPT ![c] = r]
      /\ pc'[c] # "new"
  BY <1>1 DEF RunAudited, Sound, RowsFollow, TypeOK, Goto, End
<1>3. r.class = call[c].class /\ r.name = call[c].name /\ r.args = call[c].args
  BY <1>1 DEF Numbered, TypeOK, Fields
<1>4. x.class = r.class
  BY DEF Intent, Row
<1>5. \/ Record(c, <<x>>) \/ Record(c, <<x, y>>)
      \/ RecordFails(c, <<x>>) \/ RecordFails(c, <<x, y>>)
  BY DEF RunAudited
<1> HIDE DEF x, y, r
<1>6. rows'[c] \in {<<>>, <<x>>, <<x, y>>}
  <2>1. /\ <<>> \o <<x>> = <<x>> /\ <<>> \o <<x, y>> = <<x, y>>
        /\ \A k \in 0 .. Len(<<x>>) : <<>> \o SubSeq(<<x>>, 1, k) \in {<<>>, <<x>>}
        /\ \A k \in 0 .. Len(<<x, y>>) : <<>> \o SubSeq(<<x, y>>, 1, k) \in {<<>>, <<x>>, <<x, y>>}
    BY Recorded
  <2>2. CASE Record(c, <<x>>) \/ Record(c, <<x, y>>)
    BY <1>1, <1>2, <2>1, <2>2 DEF Record, TypeOK
  <2>3. CASE RecordFails(c, <<x>>)
    <3>1. PICK k \in 0 .. Len(<<x>>) : rows'[c] = rows[c] \o SubSeq(<<x>>, 1, k)
      BY <1>1, <2>3 DEF RecordFails, TypeOK
    <3>2. rows'[c] = <<>> \o SubSeq(<<x>>, 1, k)
      BY <1>2, <3>1
    <3> QED  BY <2>1, <3>1, <3>2
  <2>4. CASE RecordFails(c, <<x, y>>)
    <3>1. PICK k \in 0 .. Len(<<x, y>>) : rows'[c] = rows[c] \o SubSeq(<<x, y>>, 1, k)
      BY <1>1, <2>4 DEF RecordFails, TypeOK
    <3>2. rows'[c] = <<>> \o SubSeq(<<x, y>>, 1, k)
      BY <1>2, <3>1
    <3> QED  BY <2>1, <3>1, <3>2
  <2> QED  BY <1>5, <2>2, <2>3, <2>4
<1>7. rows'[c] # <<>> => rows'[c][1].class = call[c].class
  BY <1>3, <1>4, <1>6, Elements
<1>8. call'[c].class = call[c].class /\ Target(c)' = Target(c)
  BY <1>1, <1>2, <1>3 DEF Target, TypeOK
<1>9. \A t, z : HasPath(t, z) => HasPath(t, z)'
  BY <1>2 DEF HasPath, Brain
<1> QED  BY <1>1, <1>2, <1>7, <1>8, <1>9 DEF Named

LEMMA HandlingNames ==
  ASSUME NameInv, NEW c \in Calls, Handling(c)
  PROVE  Named(c)' /\ options' = options
<1> DEFINE x == Intent(call[c])
<1>1. TypeOK /\ Sound(c) /\ Named(c)
  BY DEF NameInv, CallsInv
<1>2. call' = call /\ options' = options /\ pc[c] # "new"
  BY DEF Handling, AuditorFails, MethodMissing, Mutate, HandlerReturns, HandlerThrows, BareEnds,
     Yield, ListingEnds, ListingThrows
<1>3. pc'[c] # "new"
  BY <1>1, <1>2 DEF Handling, AuditorFails, MethodMissing, Mutate, HandlerReturns, HandlerThrows,
     BareEnds, Yield, ListingEnds, ListingThrows, TypeOK, Goto, End
<1>4. \/ rows'[c] = rows[c]
      \/ \E y : rows[c] = <<x>> /\ rows'[c] \in {<<x>>, <<x, y>>}
  <2>1. CASE AuditorFails(c) \/ MethodMissing(c) \/ Mutate(c) \/ BareEnds(c) \/ Yield(c)
    BY <2>1 DEF AuditorFails, MethodMissing, Mutate, BareEnds, Yield
  <2>2. CASE HandlerReturns(c) \/ HandlerThrows(c) \/ ListingEnds(c) \/ ListingThrows(c)
    <3>1. PICK y : Record(c, <<y>>) \/ RecordFails(c, <<y>>)
      BY <2>2 DEF HandlerReturns, HandlerThrows, ListingEnds, ListingThrows
    <3>2. rows[c] = <<x>> /\ DOMAIN rows = Calls
      BY <1>1, <2>2 DEF HandlerReturns, HandlerThrows, ListingEnds, ListingThrows, Sound,
         RowsFollow, TypeOK
    <3> HIDE DEF x
    <3>3. /\ <<x>> \o <<y>> = <<x, y>>
          /\ \A k \in 0 .. Len(<<y>>) : <<x>> \o SubSeq(<<y>>, 1, k) \in {<<x>>, <<x, y>>}
      BY Recorded
    <3> QED  BY <3>1, <3>2, <3>3 DEF Record, RecordFails
  <2> QED  BY <2>1, <2>2 DEF Handling
<1> HIDE DEF x
<1>5. rows'[c] # <<>> => rows[c] # <<>> /\ rows'[c][1] = rows[c][1]
  <2>1. \A y : <<x>> # <<>> /\ <<x>>[1] = x /\ <<x, y>>[1] = x
    BY Elements
  <2> QED  BY <1>4, <2>1
<1>6. \A t, z : HasPath(t, z) => HasPath(t, z)'
  BY <1>2 DEF HasPath, Brain
<1>7. Target(c)' = Target(c)
  BY <1>2 DEF Target
<1> QED  BY <1>1, <1>2, <1>3, <1>5, <1>6, <1>7 DEF Named

LEMMA NameNext == NameInv /\ [Next]_vars => NameInv'
<1> SUFFICES ASSUME NameInv, [Next]_vars  PROVE NameInv'
  OBVIOUS
<1>1. CallsInv' /\ CallsInv
  BY CallsNext DEF NameInv
<1>2. ASSUME NEW c \in Calls, Calling(c) \/ RunAudited(c) \/ Handling(c)
      PROVE  options' = options /\ \A d \in Calls : Named(d)'
  <2>1. StepOf(c)
    BY <1>1, <1>2, CallKeeps
  <2>2. Named(c)' /\ options' = options
    BY <1>2, CallingNames, RunAuditedNames, HandlingNames
  <2>3. ASSUME NEW d \in Calls, d # c  PROVE Named(d)'
    <3>1. pc'[d] = pc[d] /\ call'[d] = call[d] /\ rows'[d] = rows[d]
      BY <2>1, <2>3 DEF StepOf
    <3>2. HasPath(Target(d), call[d].class) => HasPath(Target(d), call[d].class)'
      BY <2>2, <3>1 DEF HasPath, Brain, Target
    <3> QED  BY <3>1, <3>2 DEF NameInv, Named, Target
  <2> QED  BY <2>2, <2>3
<1>3. ASSUME UNCHANGED <<options, pc, call, rows>>
      PROVE  options' = options /\ \A d \in Calls : Named(d)'
  BY <1>3 DEF NameInv, Named, Target, HasPath, Brain
<1>4. CASE \E c \in Calls : CreateAuditor(c)
  BY <1>1, <1>3, <1>4 DEF CreateAuditor, NameInv, ProperNames
<1>5. CASE CommitTransaction \/ RollbackTransaction \/ UNCHANGED vars
  <2>1. UNCHANGED <<options, pc, call, rows>>
    BY <1>5 DEF CommitTransaction, RollbackTransaction, EndTransaction, vars
  <2> QED  BY <1>1, <1>3, <2>1 DEF NameInv, ProperNames
<1>6. CASE \E c \in Calls : Calling(c) \/ RunAudited(c) \/ Handling(c)
  BY <1>1, <1>2, <1>6 DEF NameInv, ProperNames
<1> QED  BY <1>4, <1>5, <1>6 DEF Next, Calling, Handling

(* The rows of calls about one page, tag, link, entry, raw datum or version  *)
(* have one path, whether of an operation or an engine method, since the two *)
(* tables of wrap.ts agree; and where the rows of calls about two things     *)
(* have one, it is slashes in their slugs that make the paths coincide.      *)
THEOREM PathsNameTargets == ProperNames /\ Spec => []RowsNameTheirTarget
<1>1. ProperNames /\ Init => NameInv
  BY CallsInit DEF Init, NameInv, Named
<1>2. NameInv => RowsNameTheirTarget
  <2> SUFFICES ASSUME NameInv, NEW c \in Calls, NEW d \in Calls,
                      rows[c] # <<>> /\ rows[d] # <<>> /\ Target(c) # <<>> /\ Target(d) # <<>>
               PROVE  LET t == Target(c)
                          u == Target(d)
                          samePath == rows[c][1].class.path = rows[d][1].class.path
                      IN  /\ t = u => samePath
                          /\ samePath => t = u \/ Coincide(t, u) \/ Coincide(u, t)
    BY DEF RowsNameTheirTarget
  <2>1. /\ HasPath(Target(c), call[c].class) /\ rows[c][1].class = call[c].class
        /\ HasPath(Target(d), call[d].class) /\ rows[d][1].class = call[d].class
    BY DEF NameInv, Named
  <2> QED  BY <2>1, PathsAreDistinct DEF HasPath
<1> QED  BY <1>1, <1>2, NameNext, PTL DEF Spec
===============================================================================
