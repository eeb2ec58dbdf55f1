-------------------------- MODULE GameScreenProofs --------------------------
(***************************************************************************)
(* Theorems about what the pages show, for players that log in at most     *)
(* once per connection: the players on a page are those of the server, no  *)
(* response throws in the game but the acknowledgment of a gem, and the    *)
(* steps of another player are made once and in order.                     *)
(***************************************************************************)
EXTENDS GameSystemProofs

USE DEF LOGIN, LOGIN_ACK, MOVE, MOVE_ACK, OTHER_LOGIN, OTHER_MOVE, LEFT,
        GEM_SCATTER, GEM_EAT, GEM_ACK

-----------------------------------------------------------------------------
(***************************************************************************)
(* A page: its inbox q, whether the game layer has been entered, and the   *)
(* ids of the players shown on it.                                         *)
(***************************************************************************)

\* The page is in the game when it takes the i-th response.
Entered(q, layer, i) == layer \/ \E a \in 1 .. i - 1 : q[a].status = LOGIN_ACK

\* The i-th response makes the page show player k.
Adds(q, layer, i, k) ==
  \/ q[i].status = OTHER_LOGIN /\ q[i].player_id = k /\ Entered(q, layer, i)
  \/ q[i].status = LOGIN_ACK /\ k \in q[i].players

\* The page shows k now or because of one of the first n responses.
Comes(q, layer, shown, k, n) ==
  (layer /\ k \in shown) \/ \E i \in 1 .. n : Adds(q, layer, i, k)

\* A response after the i-th takes k off the page.
Goes(q, i, k) ==
  \E j \in 1 .. Len(q) : j > i /\ q[j].status = LEFT /\ q[j].player_id = k

\* A response about another player.
IsNews(m) == m.status \in {OTHER_LOGIN, OTHER_MOVE, LEFT}

\* One acknowledgment; nothing is heard of a player that has left, which is not
\* in the map (ids, up to now); no move of a player that the page will not show.
OneAck(q, layer) ==
  \A i \in 1 .. Len(q) : q[i].status = LOGIN_ACK =>
    ~layer /\ \A j \in 1 .. Len(q) : q[j].status = LOGIN_ACK => i = j
NewsOfIds(q, now) ==
  \A i \in 1 .. Len(q) :
    /\ IsNews(q[i]) => q[i].player_id \in 1 .. now
    /\ q[i].status = LOGIN_ACK => q[i].players \subseteq 1 .. now
LeftIsLast(q, ids) ==
  \A i \in 1 .. Len(q) : q[i].status = LEFT =>
    /\ q[i].player_id \notin ids
    /\ \A j \in 1 .. Len(q) : j > i =>
         /\ q[j].status \in {OTHER_LOGIN, OTHER_MOVE} => q[j].player_id # q[i].player_id
         /\ q[j].status = LOGIN_ACK => q[i].player_id \notin q[j].players
MovesOfShown(q, layer, shown) ==
  \A i \in 1 .. Len(q) : q[i].status = OTHER_MOVE /\ Entered(q, layer, i) =>
    Comes(q, layer, shown, q[i].player_id, i - 1)

InboxInOrder(q, layer, shown, ids, now) ==
  /\ IsSeq(q) /\ OneAck(q, layer) /\ NewsOfIds(q, now)
  /\ LeftIsLast(q, ids) /\ MovesOfShown(q, layer, shown)

\* The page will show the players that the server has told it of, and no other.
ShowsKnown(q, layer, shown, told) ==
  /\ layer \/ \E i \in 1 .. Len(q) : q[i].status = LOGIN_ACK
  /\ \A k \in told : Comes(q, layer, shown, k, Len(q))
  /\ layer => \A k \in shown : k \in told \/ Goes(q, 0, k)
  /\ \A i \in 1 .. Len(q) : \A k : Adds(q, layer, i, k) => k \in told \/ Goes(q, i, k)

-----------------------------------------------------------------------------
(***************************************************************************)
(* A response that is sent: r is the inbox q with m at its end.            *)
(***************************************************************************)
Extends(r, q, m) ==
  /\ IsSeq(q) /\ IsSeq(r) /\ Len(q) \in Nat /\ Len(r) = Len(q) + 1
  /\ r[Len(q) + 1] = m /\ \A i \in 1 .. Len(q) : r[i] = q[i]

LEMMA SendExtends ==
  ASSUME NEW q, IsSeq(q), NEW m
  PROVE  Extends(q \o <<m>>, q, m)
<1>1. IsSeq(<<m>>) /\ Len(<<m>>) = 1 /\ <<m>>[1] = m
  BY OneIsSeq
<1> DEFINE one == <<m>>
           r == q \o one
<1>2. /\ IsSeq(r) /\ Len(q) \in Nat /\ Len(r) = Len(q) + 1
      /\ \A i \in 1 .. Len(q) + 1 : r[i] = IF i <= Len(q) THEN q[i] ELSE one[i - Len(q)]
  BY <1>1, ConcatIsSeq
<1> HIDE DEF one, r
<1>3. one[1] = m
  BY <1>1 DEF one
<1>4. r[Len(q) + 1] = m
  BY <1>2, <1>3
<1>5. \A i \in 1 .. Len(q) : r[i] = q[i]
  BY <1>2
<1> QED
  BY <1>2, <1>4, <1>5 DEF Extends, r, one

LEMMA SendNothing ==
  ASSUME NEW q, IsSeq(q)
  PROVE  q \o <<>> = q
<1>1. PICK S : q \in Seq(S)
  BY DEF IsSeq
<1> QED
  BY <1>1, ConcatEmptySeq

LEMMA ExtendsMeans ==
  ASSUME NEW r, NEW q, NEW m, Extends(r, q, m)
  PROVE  /\ Len(q) \in Nat /\ Len(r) = Len(q) + 1
         /\ \A i \in 1 .. Len(r) : (i \in 1 .. Len(q) /\ r[i] = q[i]) \/ (i = Len(q) + 1 /\ r[i] = m)
         /\ \A i \in 1 .. Len(q) : i \in 1 .. Len(r) /\ r[i] = q[i]
         /\ Len(q) + 1 \in 1 .. Len(r) /\ r[Len(q) + 1] = m
BY DEF Extends

\* What is said of the responses before the last stays true of them.
LEMMA ExtendsKeeps ==
  ASSUME NEW r, NEW q, NEW m, Extends(r, q, m), NEW layer, NEW shown
  PROVE  /\ \A i \in 1 .. Len(q) + 1 : Entered(r, layer, i) <=> Entered(q, layer, i)
         /\ \A i \in 1 .. Len(q) : \A k : Adds(r, layer, i, k) <=> Adds(q, layer, i, k)
         /\ \A n \in 0 .. Len(q) : \A k : Comes(r, layer, shown, k, n) <=> Comes(q, layer, shown, k, n)
         /\ \A k : Comes(q, layer, shown, k, Len(q)) => Comes(r, layer, shown, k, Len(r))
         /\ \A i \in 0 .. Len(q) : \A k : Goes(q, i, k) => Goes(r, i, k)
         /\ \A i \in 0 .. Len(q) : \A k : m.status = LEFT /\ m.player_id = k => Goes(r, i, k)
<1>1. /\ Len(q) \in Nat /\ Len(r) = Len(q) + 1
      /\ \A i \in 1 .. Len(q) : i \in 1 .. Len(r) /\ r[i] = q[i]
      /\ Len(q) + 1 \in 1 .. Len(r) /\ r[Len(q) + 1] = m
  BY ExtendsMeans
<1>2. \A i \in 1 .. Len(q) + 1 : Entered(r, layer, i) <=> Entered(q, layer, i)
  BY <1>1 DEF Entered
<1>3. \A i \in 1 .. Len(q) : \A k : Adds(r, layer, i, k) <=> Adds(q, layer, i, k)
  BY <1>1, <1>2 DEF Adds
<1>4. \A n \in 0 .. Len(q) : \A k : Comes(r, layer, shown, k, n) <=> Comes(q, layer, shown, k, n)
  BY <1>1, <1>3 DEF Comes
<1>5. \A k : Comes(q, layer, shown, k, Len(q)) => Comes(r, layer, shown, k, Len(r))
  BY <1>1, <1>3 DEF Comes
<1>6. \A i \in 0 .. Len(q) : \A k : Goes(q, i, k) => Goes(r, i, k)
  BY <1>1 DEF Goes
<1>7. \A i \in 0 .. Len(q) : \A k : m.status = LEFT /\ m.player_id = k => Goes(r, i, k)
  BY <1>1 DEF Goes
<1> QED
  BY <1>2, <1>3, <1>4, <1>5, <1>6, <1>7

\* The response fits what is under way; ids2 is what the map holds afterwards.
LEMMA SentInOrder ==
  ASSUME NEW q, NEW layer, NEW shown, NEW ids, NEW now,
         InboxInOrder(q, layer, shown, ids, now),
         NEW r, NEW m, Extends(r, q, m), NEW ids2, ids2 \subseteq ids,
         IsNews(m) => m.player_id \in 1 .. now,
         m.status \in {OTHER_LOGIN, OTHER_MOVE} => m.player_id \in ids,
         m.status = LEFT => m.player_id \notin ids2,
         m.status = LOGIN_ACK =>
           /\ ~layer /\ m.players \subseteq ids /\ m.players \subseteq 1 .. now
           /\ \A i \in 1 .. Len(q) : q[i].status # LOGIN_ACK,
         m.status = OTHER_MOVE /\ Entered(q, layer, Len(q) + 1) =>
           Comes(q, layer, shown, m.player_id, Len(q))
  PROVE  InboxInOrder(r, layer, shown, ids2, now)
<1>1. /\ Len(q) \in Nat /\ Len(r) = Len(q) + 1
      /\ \A i \in 1 .. Len(r) : (i \in 1 .. Len(q) /\ r[i] = q[i]) \/ (i = Len(q) + 1 /\ r[i] = m)
  BY ExtendsMeans
<1>2. OneAck(r, layer)
  BY <1>1 DEF InboxInOrder, OneAck
<1>3. NewsOfIds(r, now)
  BY <1>1 DEF InboxInOrder, NewsOfIds
<1>4. LeftIsLast(r, ids2)
  <2> SUFFICES ASSUME NEW i \in 1 .. Len(r), r[i].status = LEFT
               PROVE  /\ r[i].player_id \notin ids2
                      /\ \A j \in 1 .. Len(r) : j > i =>
                           /\ r[j].status \in {OTHER_LOGIN, OTHER_MOVE} =>
                                r[j].player_id # r[i].player_id
                           /\ r[j].status = LOGIN_ACK => r[i].player_id \notin r[j].players
    BY DEF LeftIsLast
  <2>1. CASE i = Len(q) + 1
    BY <1>1, <2>1
  <2>2. CASE i \in 1 .. Len(q) /\ r[i] = q[i]
    <3>1. /\ q[i].player_id \notin ids
          /\ \A j \in 1 .. Len(q) : j > i =>
               /\ q[j].status \in {OTHER_LOGIN, OTHER_MOVE} => q[j].player_id # q[i].player_id
               /\ q[j].status = LOGIN_ACK => q[i].player_id \notin q[j].players
      BY <2>2 DEF InboxInOrder, LeftIsLast
    <3> QED
      BY <1>1, <2>2, <3>1
  <2> QED
    BY <1>1, <2>1, <2>2
<1>5. MovesOfShown(r, layer, shown)
  <2> SUFFICES ASSUME NEW i \in 1 .. Len(r), r[i].status = OTHER_MOVE, Entered(r, layer, i)
               PROVE  Comes(r, layer, shown, r[i].player_id, i - 1)
    BY DEF MovesOfShown
  <2>0. i \in 1 .. Len(q) + 1 /\ i - 1 \in 0 .. Len(q)
    BY <1>1
  <2>1. Entered(q, layer, i)
    BY <2>0, ExtendsKeeps
  <2>2. Comes(q, layer, shown, r[i].player_id, i - 1)
    <3>1. CASE i = Len(q) + 1 /\ r[i] = m
      BY <1>1, <2>1, <3>1
    <3>2. CASE i \in 1 .. Len(q) /\ r[i] = q[i]
      BY <2>1, <3>2 DEF InboxInOrder, MovesOfShown
    <3> QED
      BY <1>1, <3>1, <3>2
  <2> QED
    BY <2>0, <2>2, ExtendsKeeps
<1> QED
  BY <1>2, <1>3, <1>4, <1>5 DEF InboxInOrder, Extends

\* A player that has been told of the others hears of one that comes or goes, or
\* of a move, or something about itself.
LEMMA SentShows ==
  ASSUME NEW q, NEW layer, NEW shown, NEW told, ShowsKnown(q, layer, shown, told),
         NEW r, NEW m, Extends(r, q, m), NEW told2, m.status # LOGIN_ACK,
         \/ m.status = OTHER_LOGIN /\ told2 = told \cup {m.player_id}
         \/ m.status = LEFT /\ told2 = told \ {m.player_id}
         \/ m.status \notin {OTHER_LOGIN, LEFT} /\ told2 = told
  PROVE  ShowsKnown(r, layer, shown, told2)
<1>1. /\ Len(q) \in Nat /\ Len(r) = Len(q) + 1
      /\ \A i \in 1 .. Len(r) : (i \in 1 .. Len(q) /\ r[i] = q[i]) \/ (i = Len(q) + 1 /\ r[i] = m)
      /\ \A i \in 1 .. Len(q) : i \in 1 .. Len(r) /\ r[i] = q[i]
      /\ Len(q) + 1 \in 1 .. Len(r) /\ r[Len(q) + 1] = m
  BY ExtendsMeans
<1>2. layer \/ \E i \in 1 .. Len(r) : r[i].status = LOGIN_ACK
  BY <1>1 DEF ShowsKnown
<1>3. Entered(r, layer, Len(q) + 1)
  BY <1>1 DEF ShowsKnown, Entered
<1>4. ASSUME NEW k \in told2 PROVE Comes(r, layer, shown, k, Len(r))
  <2>1. CASE k \in told
    <3>1. Comes(q, layer, shown, k, Len(q))
      BY <2>1 DEF ShowsKnown
    <3> QED
      BY <3>1, ExtendsKeeps
  <2>2. CASE m.status = OTHER_LOGIN /\ k = m.player_id
    <3>1. Adds(r, layer, Len(q) + 1, k)
      BY <1>1, <1>3, <2>2 DEF Adds
    <3> QED
      BY <1>1, <3>1 DEF Comes
  <2> QED
    BY <1>4, <2>1, <2>2
<1>5. ASSUME NEW i \in 0 .. Len(q), NEW k, k \in told \/ Goes(q, i, k)
      PROVE  k \in told2 \/ Goes(r, i, k)
  BY <1>5, ExtendsKeeps
<1>6. ASSUME layer, NEW k \in shown PROVE k \in told2 \/ Goes(r, 0, k)
  BY <1>1, <1>5, <1>6 DEF ShowsKnown
<1>7. ASSUME NEW i \in 1 .. Len(r), NEW k, Adds(r, layer, i, k)
      PROVE  k \in told2 \/ Goes(r, i, k)
  <2>1. CASE i = Len(q) + 1
    BY <1>1, <1>7, <2>1 DEF Adds
  <2>2. CASE i \in 1 .. Len(q)
    <3>1. Adds(q, layer, i, k)
      BY <1>7, <2>2, ExtendsKeeps
    <3> QED
      BY <1>1, <1>5, <2>2, <3>1 DEF ShowsKnown
  <2> QED
    BY <1>1, <2>1, <2>2
<1> QED
  BY <1>2, <1>4, <1>6, <1>7 DEF ShowsKnown

\* The acknowledgment is the first thing that makes a page show anybody.
LEMMA AckShows ==
  ASSUME NEW q, NEW r, NEW m, Extends(r, q, m), m.status = LOGIN_ACK, NEW layer, ~layer,
         \A i \in 1 .. Len(q) : q[i].status # LOGIN_ACK, NEW shown
  PROVE  ShowsKnown(r, layer, shown, m.players)
<1>1. /\ Len(q) \in Nat /\ Len(r) = Len(q) + 1
      /\ \A i \in 1 .. Len(r) : (i \in 1 .. Len(q) /\ r[i] = q[i]) \/ (i = Len(q) + 1 /\ r[i] = m)
      /\ \A i \in 1 .. Len(q) : i \in 1 .. Len(r) /\ r[i] = q[i]
      /\ Len(q) + 1 \in 1 .. Len(r) /\ r[Len(q) + 1] = m
  BY ExtendsMeans
<1>2. \A i \in 1 .. Len(r) : ~Entered(r, layer, i)
  BY <1>1 DEF Entered
<1>3. \A k \in m.players : Adds(r, layer, Len(q) + 1, k)
  BY <1>1 DEF Adds
<1>4. \A k \in m.players : Comes(r, layer, shown, k, Len(r))
  BY <1>1, <1>3 DEF Comes
<1>5. \A i \in 1 .. Len(r) : \A k : Adds(r, layer, i, k) => k \in m.players
  BY <1>1, <1>2 DEF Adds
<1> QED
  BY <1>1, <1>4, <1>5 DEF ShowsKnown

-----------------------------------------------------------------------------
(***************************************************************************)
(* A response that is taken: r is the inbox q without its first, m.        *)
(***************************************************************************)
Follows(r, q, m) ==
  /\ IsSeq(q) /\ IsSeq(r) /\ Len(q) \in Nat /\ Len(r) \in Nat /\ Len(q) = Len(r) + 1
  /\ q[1] = m /\ \A i \in 1 .. Len(r) : r[i] = q[i + 1]

LEMMA TailFollows ==
  ASSUME NEW q, IsSeq(q), q # <<>>
  PROVE  Follows(Tail(q), q, Head(q))
<1> DEFINE r == Tail(q)
           m == Head(q)
<1>1. /\ IsSeq(r) /\ m = q[1] /\ Len(q) \in Nat /\ Len(q) >= 1
      /\ Len(r) = Len(q) - 1 /\ \A i \in 1 .. Len(q) - 1 : r[i] = q[i + 1]
  BY TailIsSeq
<1> HIDE DEF r, m
<1>2. Follows(r, q, m)
  BY <1>1 DEF Follows
<1> QED
  BY <1>2 DEF r, m

\* What the page makes of it.
Shows(m, layer, shown, layer2, shown2) ==
  \/ m.status = LOGIN_ACK /\ ~layer /\ layer2 /\ shown2 = m.players
  \/ m.status = OTHER_LOGIN /\ layer /\ layer2 /\ shown2 = shown \cup {m.player_id}
  \/ m.status = LEFT /\ layer /\ layer2 /\ shown2 = shown \ {m.player_id}
  \/ /\ m.status # LOGIN_ACK /\ (layer => m.status \notin {OTHER_LOGIN, LEFT})
     /\ layer2 = layer /\ shown2 = shown

\* The rest has the same to say, to a page that has taken the first.
SaysTheSame(r, layer2, shown2, m, q, layer, shown) ==
  /\ \A i \in 1 .. Len(r) + 1 : Entered(r, layer2, i) <=> Entered(q, layer, i + 1)
  /\ \A i \in 1 .. Len(r) : \A k : Adds(r, layer2, i, k) <=> Adds(q, layer, i + 1, k)
  /\ \A k : Adds(q, layer, 1, k) => layer2 /\ k \in shown2
  /\ \A n \in 0 .. Len(r) : \A k :
       Comes(q, layer, shown, k, n + 1) /\ ~(m.status = LEFT /\ m.player_id = k) =>
         Comes(r, layer2, shown2, k, n)
  /\ \A i \in 0 .. Len(r) : \A k : Goes(q, i + 1, k) => Goes(r, i, k)
  /\ \A k : Goes(q, 0, k) => Goes(r, 0, k) \/ (m.status = LEFT /\ m.player_id = k)

LEMMA FollowsKeeps ==
  ASSUME NEW r, NEW q, NEW m, Follows(r, q, m),
         NEW layer \in BOOLEAN, NEW shown, NEW layer2 \in BOOLEAN, NEW shown2,
         Shows(m, layer, shown, layer2, shown2), OneAck(q, layer)
  PROVE  SaysTheSame(r, layer2, shown2, m, q, layer, shown)
<1>1. /\ Len(q) \in Nat /\ Len(r) \in Nat /\ Len(q) = Len(r) + 1
      /\ q[1] = m /\ \A i \in 1 .. Len(r) : r[i] = q[i + 1]
  BY DEF Follows
<1>2. layer2 <=> (layer \/ q[1].status = LOGIN_ACK)
  BY <1>1 DEF Shows
<1>3. ASSUME NEW i \in 1 .. Len(r) + 1
      PROVE  Entered(r, layer2, i) <=> Entered(q, layer, i + 1)
  <2>1. ASSUME Entered(r, layer2, i) PROVE Entered(q, layer, i + 1)
    <3>1. CASE layer2
      BY <1>1, <1>2, <3>1 DEF Entered
    <3>2. ASSUME NEW a \in 1 .. i - 1, r[a].status = LOGIN_ACK
          PROVE  Entered(q, layer, i + 1)
      <4>1. a + 1 \in 1 .. (i + 1) - 1 /\ q[a + 1].status = LOGIN_ACK
        BY <1>1, <3>2
      <4> QED
        BY <4>1 DEF Entered
    <3> QED
      BY <2>1, <3>1, <3>2 DEF Entered
  <2>2. ASSUME Entered(q, layer, i + 1) PROVE Entered(r, layer2, i)
    <3>1. CASE layer
      BY <1>2, <3>1 DEF Entered
    <3>2. ASSUME NEW a \in 1 .. (i + 1) - 1, q[a].status = LOGIN_ACK
          PROVE  Entered(r, layer2, i)
      <4>1. CASE a = 1
        BY <1>2, <3>2, <4>1 DEF Entered
      <4>2. CASE a # 1
        <5>1. a - 1 \in 1 .. i - 1 /\ a - 1 \in 1 .. Len(r) /\ (a - 1) + 1 = a
          BY <1>1, <4>2
        <5>2. r[a - 1].status = LOGIN_ACK
          BY <1>1, <3>2, <5>1
        <5> QED
          BY <5>1, <5>2 DEF Entered
      <4> QED
        BY <4>1, <4>2
    <3> QED
      BY <2>2, <3>1, <3>2 DEF Entered
  <2> QED
    BY <2>1, <2>2
<1>4. \A i \in 1 .. Len(r) : \A k : Adds(r, layer2, i, k) <=> Adds(q, layer, i + 1, k)
  BY <1>1, <1>3 DEF Adds
<1>5. ASSUME NEW k, Adds(q, layer, 1, k) PROVE layer2 /\ k \in shown2
  <2>1. Entered(q, layer, 1) <=> layer
    BY DEF Entered
  <2> QED
    BY <1>1, <1>5, <2>1 DEF Adds, Shows
<1>6. ASSUME NEW n \in 0 .. Len(r), NEW k, Comes(q, layer, shown, k, n + 1),
             ~(m.status = LEFT /\ m.player_id = k)
      PROVE  Comes(r, layer2, shown2, k, n)
  <2>1. CASE layer /\ k \in shown
    <3>1. layer2 /\ k \in shown2
      BY <1>1, <1>6, <2>1 DEF Shows
    <3> QED
      BY <3>1 DEF Comes
  <2>2. ASSUME NEW i \in 1 .. n + 1, Adds(q, layer, i, k)
        PROVE  Comes(r, layer2, shown2, k, n)
    <3>1. CASE i = 1
      BY <1>5, <2>2, <3>1 DEF Comes
    <3>2. CASE i # 1
      <4>1. i - 1 \in 1 .. n /\ i - 1 \in 1 .. Len(r) /\ (i - 1) + 1 = i
        BY <3>2
      <4>2. Adds(r, layer2, i - 1, k)
        BY <1>4, <2>2, <4>1
      <4> QED
        BY <4>1, <4>2 DEF Comes
    <3> QED
      BY <3>1, <3>2
  <2> QED
    BY <1>6, <2>1, <2>2 DEF Comes
<1>7. ASSUME NEW i \in 0 .. Len(r), NEW k, Goes(q, i + 1, k) PROVE Goes(r, i, k)
  <2>1. PICK j \in 1 .. Len(q) : j > i + 1 /\ q[j].status = LEFT /\ q[j].player_id = k
    BY <1>7 DEF Goes
  <2>2. j - 1 \in 1 .. Len(r) /\ j - 1 > i /\ (j - 1) + 1 = j
    BY <1>1, <2>1
  <2>3. r[j - 1] = q[j]
    BY <1>1, <2>2
  <2> QED
    BY <2>1, <2>2, <2>3 DEF Goes
<1>8. ASSUME NEW k, Goes(q, 0, k) PROVE Goes(r, 0, k) \/ (m.status = LEFT /\ m.player_id = k)
  <2>1. PICK j \in 1 .. Len(q) : j > 0 /\ q[j].status = LEFT /\ q[j].player_id = k
    BY <1>8 DEF Goes
  <2>2. CASE j = 1
    BY <1>1, <2>1, <2>2
  <2>3. CASE j # 1
    <3>1. Goes(q, 0 + 1, k)
      BY <2>1, <2>3 DEF Goes
    <3> QED
      BY <1>1, <1>7, <3>1
  <2> QED
    BY <2>2, <2>3
<1> QED
  BY <1>3, <1>4, <1>5, <1>6, <1>7, <1>8 DEF SaysTheSame

LEMMA TakenInOrder ==
  ASSUME NEW q, NEW layer \in BOOLEAN, NEW shown, NEW ids, NEW now,
         InboxInOrder(q, layer, shown, ids, now),
         NEW r, NEW m, Follows(r, q, m), NEW layer2 \in BOOLEAN, NEW shown2,
         Shows(m, layer, shown, layer2, shown2)
  PROVE  InboxInOrder(r, layer2, shown2, ids, now)
<1>0. SaysTheSame(r, layer2, shown2, m, q, layer, shown)
  BY FollowsKeeps DEF InboxInOrder
<1>1. /\ Len(q) \in Nat /\ Len(r) \in Nat /\ Len(q) = Len(r) + 1
      /\ q[1] = m /\ 1 \in 1 .. Len(q)
      /\ \A i \in 1 .. Len(r) : i + 1 \in 1 .. Len(q) /\ r[i] = q[i + 1]
  BY DEF Follows
<1>2. OneAck(r, layer2)
  <2> SUFFICES ASSUME NEW i \in 1 .. Len(r), r[i].status = LOGIN_ACK
               PROVE  ~layer2 /\ \A j \in 1 .. Len(r) : r[j].status = LOGIN_ACK => i = j
    BY DEF OneAck
  <2>1. i + 1 \in 1 .. Len(q) /\ q[i + 1].status = LOGIN_ACK
    BY <1>1
  <2>2. ~layer /\ \A j \in 1 .. Len(q) : q[j].status = LOGIN_ACK => i + 1 = j
    BY <2>1 DEF InboxInOrder, OneAck
  <2>3. m.status # LOGIN_ACK
    BY <1>1, <2>2
  <2> QED
    BY <1>1, <2>2, <2>3 DEF Shows
<1>3. NewsOfIds(r, now)
  BY <1>1 DEF InboxInOrder, NewsOfIds
<1>4. LeftIsLast(r, ids)
  <2> SUFFICES ASSUME NEW i \in 1 .. Len(r), r[i].status = LEFT
               PROVE  /\ r[i].player_id \notin ids
                      /\ \A j \in 1 .. Len(r) : j > i =>
                           /\ r[j].status \in {OTHER_LOGIN, OTHER_MOVE} =>
                                r[j].player_id # r[i].player_id
                           /\ r[j].status = LOGIN_ACK => r[i].player_id \notin r[j].players
    BY DEF LeftIsLast
  <2>1. i + 1 \in 1 .. Len(q) /\ q[i + 1] = r[i]
    BY <1>1
  <2>2. /\ q[i + 1].player_id \notin ids
        /\ \A j \in 1 .. Len(q) : j > i + 1 =>
             /\ q[j].status \in {OTHER_LOGIN, OTHER_MOVE} => q[j].player_id # q[i + 1].player_id
             /\ q[j].status = LOGIN_ACK => q[i + 1].player_id \notin q[j].players
    BY <2>1 DEF InboxInOrder, LeftIsLast
  <2>3. \A j \in 1 .. Len(r) : j > i => j + 1 > i + 1
    BY <1>1
  <2> QED
    BY <1>1, <2>1, <2>2, <2>3
<1>5. MovesOfShown(r, layer2, shown2)
  <2> SUFFICES ASSUME NEW i \in 1 .. Len(r), r[i].status = OTHER_MOVE, Entered(r, layer2, i)
               PROVE  Comes(r, layer2, shown2, r[i].player_id, i - 1)
    BY DEF MovesOfShown
  <2>1. i + 1 \in 1 .. Len(q) /\ q[i + 1] = r[i] /\ i - 1 \in 0 .. Len(r) /\ i \in 1 .. Len(r) + 1
    BY <1>1
  <2>2. Entered(q, layer, i + 1)
    BY <2>1, <1>0 DEF SaysTheSame
  <2>3. Comes(q, layer, shown, r[i].player_id, (i + 1) - 1)
    BY <2>1, <2>2 DEF InboxInOrder, MovesOfShown
  <2>4. ~(m.status = LEFT /\ m.player_id = r[i].player_id)
    BY <1>1, <2>1 DEF InboxInOrder, LeftIsLast
  <2>5. (i + 1) - 1 = (i - 1) + 1
    OBVIOUS
  <2> QED
    BY <2>1, <2>3, <2>4, <2>5, <1>0 DEF SaysTheSame
<1> QED
  BY <1>2, <1>3, <1>4, <1>5 DEF InboxInOrder, Follows

LEMMA TakenShows ==
  ASSUME NEW q, NEW layer \in BOOLEAN, NEW shown, NEW ids, NEW now,
         InboxInOrder(q, layer, shown, ids, now),
         NEW told, told \subseteq ids, ShowsKnown(q, layer, shown, told),
         NEW r, NEW m, Follows(r, q, m), NEW layer2 \in BOOLEAN, NEW shown2,
         Shows(m, layer, shown, layer2, shown2)
  PROVE  ShowsKnown(r, layer2, shown2, told)
<1>0. SaysTheSame(r, layer2, shown2, m, q, layer, shown)
  BY FollowsKeeps DEF InboxInOrder
<1>1. /\ Len(q) \in Nat /\ Len(r) \in Nat /\ Len(q) = Len(r) + 1
      /\ q[1] = m /\ 1 \in 1 .. Len(q)
      /\ \A i \in 1 .. Len(r) : i + 1 \in 1 .. Len(q) /\ r[i] = q[i + 1]
  BY DEF Follows
<1>2. layer2 \/ \E i \in 1 .. Len(r) : r[i].status = LOGIN_ACK
  <2>1. CASE layer \/ m.status = LOGIN_ACK
    BY <2>1 DEF Shows
  <2>2. CASE ~layer /\ m.status # LOGIN_ACK
    <3>1. PICK i \in 1 .. Len(q) : q[i].status = LOGIN_ACK
      BY <2>2 DEF ShowsKnown
    <3>2. i - 1 \in 1 .. Len(r) /\ (i - 1) + 1 = i
      BY <1>1, <2>2, <3>1
    <3> QED
      BY <1>1, <3>1, <3>2
  <2> QED
    BY <2>1, <2>2
<1>3. ASSUME NEW k \in told PROVE Comes(r, layer2, shown2, k, Len(r))
  <2>1. Comes(q, layer, shown, k, Len(r) + 1) /\ Len(r) \in 0 .. Len(r)
    BY <1>1 DEF ShowsKnown
  <2>2. ~(m.status = LEFT /\ m.player_id = k)
    BY <1>1 DEF InboxInOrder, LeftIsLast
  <2> QED
    BY <2>1, <2>2, <1>0 DEF SaysTheSame
<1>4. ASSUME layer2, NEW k \in shown2 PROVE k \in told \/ Goes(r, 0, k)
  <2>1. CASE layer /\ k \in shown
    <3>1. k \in told \/ Goes(q, 0, k)
      BY <2>1 DEF ShowsKnown
    <3>2. CASE m.status = LEFT /\ m.player_id = k
      BY <1>4, <2>1, <3>2 DEF Shows
    <3> QED
      BY <3>1, <3>2, <1>0 DEF SaysTheSame
  <2>2. CASE ~(layer /\ k \in shown)
    <3>1. Adds(q, layer, 1, k)
      BY <1>1, <1>4, <2>2 DEF Shows, Adds, Entered
    <3>2. k \in told \/ Goes(q, 0 + 1, k)
      BY <1>1, <3>1 DEF ShowsKnown
    <3>3. 0 \in 0 .. Len(r)
      BY <1>1
    <3> QED
      BY <3>2, <3>3, <1>0 DEF SaysTheSame
  <2> QED
    BY <2>1, <2>2
<1>5. ASSUME NEW i \in 1 .. Len(r), NEW k, Adds(r, layer2, i, k)
      PROVE  k \in told \/ Goes(r, i, k)
  <2>1. Adds(q, layer, i + 1, k)
    BY <1>5, <1>0 DEF SaysTheSame
  <2>2. k \in told \/ Goes(q, i + 1, k)
    BY <1>1, <2>1 DEF ShowsKnown
  <2>3. i \in 0 .. Len(r)
    OBVIOUS
  <2> QED
    BY <2>2, <2>3, <1>0 DEF SaysTheSame
<1> QED
  BY <1>2, <1>3, <1>4, <1>5 DEF ShowsKnown

-----------------------------------------------------------------------------
(***************************************************************************)
(* The invariant.                                                          *)
(***************************************************************************)
PageInOrder(s) ==
  InboxInOrder(inbox[s], m_GameLayer[s], DOMAIN players[s], DOMAIN users_map_main, clock)

PageShowsKnown(s) ==
  ~broken /\ conn[s] = "open" /\ user_json[s] # 0 =>
    ShowsKnown(inbox[s], m_GameLayer[s], DOMAIN players[s], known[s])

ScreenTypes ==
  /\ DOMAIN players = Sessions /\ \A s \in Sessions : DOMAIN players[s] \subseteq 1 .. clock
  /\ late_errors \in [Sessions -> SUBSET {GEM_ACK}]

ScreenOK == ScreenTypes /\ \A s \in Sessions : PageInOrder(s) /\ PageShowsKnown(s)

ScreenInv == ServiceInv /\ SystemInv /\ EntriesInv /\ ScreenOK

LEMMA EmptyInOrder ==
  ASSUME NEW layer, NEW shown, NEW ids, NEW now
  PROVE  InboxInOrder(<<>>, layer, shown, ids, now)
BY EmptyIsSeq DEF InboxInOrder, OneAck, NewsOfIds, LeftIsLast, MovesOfShown

\* Only a new id comes to the map.
LEMMA MapInOrder ==
  ASSUME NEW q, NEW layer, NEW shown, NEW ids, NEW now \in Nat,
         InboxInOrder(q, layer, shown, ids, now),
         NEW ids2, NEW now2 \in Nat, now <= now2,
         \A k \in ids2 : k \in ids \/ k \notin 1 .. now
  PROVE  InboxInOrder(q, layer, shown, ids2, now2)
<1>1. NewsOfIds(q, now2)
  BY DEF InboxInOrder, NewsOfIds
<1>2. LeftIsLast(q, ids2)
  BY DEF InboxInOrder, LeftIsLast, NewsOfIds, IsNews
<1> QED
  BY <1>1, <1>2 DEF InboxInOrder

LEMMA ScreenNats ==
  ASSUME SystemInv
  PROVE  /\ clock \in Nat /\ m_GameLayer \in [Sessions -> BOOLEAN]
         /\ \A s \in Sessions : m_GameLayer[s] \in BOOLEAN /\ IsSeq(inbox[s])
         /\ \A k \in DOMAIN users_map_main : k \in 1 .. clock
BY MapTypes DEF SystemInv, OneLoginInv, PageTypes, PageOK, InboxOK

\* Nothing is sent, taken or told.
LEMMA QuietScreen ==
  ASSUME SystemInv, ScreenOK, UNCHANGED <<inbox, m_GameLayer, late_errors, known, user_json>>,
         DOMAIN players' = Sessions,
         \A c \in Sessions : DOMAIN players'[c] = DOMAIN players[c],
         clock' \in Nat, clock <= clock',
         \A k \in DOMAIN users_map_main' : k \in DOMAIN users_map_main \/ k \notin 1 .. clock,
         \A c \in Sessions : conn'[c] = "open" => conn[c] = "open" \/ user_json[c] = 0,
         broken => broken'
  PROVE  ScreenOK'
<1>1. ScreenTypes'
  BY ScreenNats DEF ScreenOK, ScreenTypes
<1>2. ASSUME NEW c \in Sessions PROVE PageInOrder(c)'
  <2>1. InboxInOrder(inbox[c], m_GameLayer[c], DOMAIN players[c], DOMAIN users_map_main, clock)
    BY DEF ScreenOK, PageInOrder
  <2>2. InboxInOrder(inbox[c], m_GameLayer[c], DOMAIN players[c], DOMAIN users_map_main', clock')
    BY <2>1, ScreenNats, MapInOrder
  <2> QED
    BY <2>2 DEF PageInOrder
<1>3. ASSUME NEW c \in Sessions PROVE PageShowsKnown(c)'
  BY DEF ScreenOK, PageShowsKnown
<1> QED
  BY <1>1, <1>2, <1>3 DEF ScreenOK

-----------------------------------------------------------------------------
(***************************************************************************)
(* What a session reads of a visit and of a departure, after an inbox q.   *)
(***************************************************************************)
LEMMA ReadsOne ==
  ASSUME NEW q, IsSeq(q), NEW m
  PROVE  /\ Extends(q \o (<<m>> \o <<>>), q, m)
         /\ Extends(q \o (<<>> \o <<m>>), q, m)
         /\ Extends(q \o (<<>> \o (<<m>> \o <<>>)), q, m)
         /\ q \o (<<>> \o <<>>) = q /\ q \o (<<>> \o (<<>> \o <<>>)) = q
<1>1. <<m>> \o <<>> = <<m>> /\ <<>> \o <<m>> = <<m>>
  <2>1. <<m>> \in Seq({m})
    OBVIOUS
  <2> QED
    BY <2>1, ConcatEmptySeq
<1>2. <<>> \o <<>> = <<>>
  BY EmptyIsSeq, SendNothing
<1>3. Extends(q \o <<m>>, q, m)
  BY SendExtends
<1>4. q \o <<>> = q
  BY SendNothing
<1> QED
  BY <1>1, <1>2, <1>3, <1>4

LEMMA ReadsTwo ==
  ASSUME NEW q, IsSeq(q), NEW m, NEW n
  PROVE  \E p : Extends(p, q, m) /\ Extends(q \o (<<m>> \o (<<>> \o <<n>>)), p, n)
<1>1. PICK S : q \in Seq(S)
  BY DEF IsSeq
<1> DEFINE T == S \cup {m, n}
<1>2. q \in Seq(T) /\ <<m>> \in Seq(T) /\ <<n>> \in Seq(T)
  BY <1>1, SeqMonotonic
<1>3. <<>> \o <<n>> = <<n>>
  BY <1>2, ConcatEmptySeq
<1>4. (q \o <<m>>) \o <<n>> = q \o (<<m>> \o <<n>>)
  BY <1>2, ConcatAssociative
<1>5. Extends(q \o <<m>>, q, m)
  BY SendExtends
<1>6. IsSeq(q \o <<m>>)
  BY <1>5 DEF Extends
<1>7. Extends((q \o <<m>>) \o <<n>>, q \o <<m>>, n)
  BY <1>6, SendExtends
<1> QED
  BY <1>3, <1>4, <1>5, <1>7

\* The registration of s: the gems and the acknowledgment to s, one response to
\* the others.
RegistrationReads(s, c, q, r) ==
  /\ c = s => \E p, scatter, ack :
       /\ Extends(p, q, scatter) /\ Extends(r, p, ack)
       /\ scatter.status = GEM_SCATTER /\ ack.status = LOGIN_ACK
       /\ ack.players = {player_id[t] : t \in Recipients(s)}
  /\ c # s /\ c \in Recipients(s) => \E m :
       Extends(r, q, m) /\ m.status = OTHER_LOGIN /\ m.player_id = player_id[s]
  /\ c # s /\ c \notin Recipients(s) => r = q

LEMMA RegistrationRead ==
  ASSUME NEW s \in Sessions, s \notin Recipients(s), NEW c \in Sessions, NEW q, IsSeq(q),
         NEW r, r = q \o RegistrationSent(s)[c]
  PROVE  RegistrationReads(s, c, q, r)
<1> DEFINE scatter == build_gems_scatter_json(s)
           news == WithStatus(build_player_json_registrator(s), OTHER_LOGIN)
           ack == [status |-> build_player_json_registrator(s).status,
                   player_id |-> build_player_json_registrator(s).player_id,
                   players |-> {player_id[t] : t \in Recipients(s)}]
           out == RegistrationSent(s)[c]
<1>1. /\ scatter.status = GEM_SCATTER
      /\ news.status = OTHER_LOGIN /\ news.player_id = player_id[s]
      /\ ack.status = LOGIN_ACK /\ ack.players = {player_id[t] : t \in Recipients(s)}
  BY DEF build_gems_scatter_json, WithStatus, build_player_json_registrator
<1>2. out = (IF c = s THEN <<scatter>> ELSE <<>>) \o
            ((IF c \in Recipients(s) THEN <<news>> ELSE <<>>) \o
             (IF c = s THEN <<ack>> ELSE <<>>))
  BY DEF RegistrationSent, Then, ToSelf, ToOthers
<1> HIDE DEF scatter, news, ack, out
<1>3. CASE c = s
  <2>1. out = <<scatter>> \o (<<>> \o <<ack>>)
    BY <1>2, <1>3
  <2> QED
    BY <1>1, <1>3, <2>1, ReadsTwo DEF out, RegistrationReads
<1>4. CASE c # s /\ c \in Recipients(s)
  <2>1. out = <<>> \o (<<news>> \o <<>>)
    BY <1>2, <1>4
  <2> QED
    BY <1>1, <1>4, <2>1, ReadsOne DEF out, RegistrationReads
<1>5. CASE c # s /\ c \notin Recipients(s)
  <2>1. out = <<>> \o (<<>> \o <<>>)
    BY <1>2, <1>5
  <2> QED
    BY <1>1, <1>5, <2>1, ReadsOne DEF out, RegistrationReads
<1> QED
  BY <1>3, <1>4, <1>5 DEF RegistrationReads

\* A move of s: the acknowledgment to s, the same with another status to others.
MovementReads(s, c, q, r) ==
  /\ c = s => \E m : Extends(r, q, m) /\ m.status = MOVE_ACK
  /\ c # s /\ c \in Recipients(s) => \E m :
       /\ Extends(r, q, m) /\ m.status = OTHER_MOVE /\ m.player_id = player_id[s]
       /\ IF collision_status[s] = GEM_EAT THEN m.collision_status = GEM_ACK
          ELSE /\ m.collision_status = collision_status[s]
               /\ m.player_seq = player_seq[s]
  /\ c # s /\ c \notin Recipients(s) => r = q

LEMMA MovementRead ==
  ASSUME NEW s \in Sessions, s \notin Recipients(s), NEW c \in Sessions, NEW q, IsSeq(q),
         NEW r, r = q \o MovementSent(s)[c]
  PROVE  MovementReads(s, c, q, r)
<1> DEFINE ack == IF collision_status[s] = GEM_EAT
                  THEN build_gems_score_json(s) ELSE build_player_json_movment(s)
           news == WithStatus(ack, OTHER_MOVE)
           out == MovementSent(s)[c]
<1>1. /\ ack.status = MOVE_ACK
      /\ news.status = OTHER_MOVE /\ news.player_id = player_id[s]
      /\ IF collision_status[s] = GEM_EAT THEN news.collision_status = GEM_ACK
         ELSE /\ news.collision_status = collision_status[s]
              /\ news.player_seq = player_seq[s]
  BY DEF build_gems_score_json, build_player_json_movment, WithStatus
<1>2. out = (IF c \in Recipients(s) THEN <<news>> ELSE <<>>) \o
            (IF c = s THEN <<ack>> ELSE <<>>)
  BY DEF MovementSent, Then, ToSelf, ToOthers
<1> HIDE DEF ack, news, out
<1>3. CASE c = s
  <2>1. out = <<>> \o <<ack>>
    BY <1>2, <1>3
  <2> QED
    BY <1>1, <1>3, <2>1, ReadsOne DEF out, MovementReads
<1>4. CASE c # s /\ c \in Recipients(s)
  <2>1. out = <<news>> \o <<>>
    BY <1>2, <1>4
  <2> QED
    BY <1>1, <1>4, <2>1, ReadsOne DEF out, MovementReads
<1>5. CASE c # s /\ c \notin Recipients(s)
  <2>1. out = <<>> \o <<>>
    BY <1>2, <1>5
  <2> QED
    BY <1>1, <1>5, <2>1, ReadsOne DEF out, MovementReads
<1> QED
  BY <1>3, <1>4, <1>5 DEF MovementReads

\* The departure of s.
LeaveReads(s, c, q, r) ==
  /\ c \in Recipients(s) => \E m :
       Extends(r, q, m) /\ m.status = LEFT /\ m.player_id = user_json[s]
  /\ c \notin Recipients(s) => r = q

LEMMA LeaveRead ==
  ASSUME NEW s \in Sessions, NEW c \in Sessions, NEW q, IsSeq(q),
         NEW r, r = q \o LeaveSent(s)[c]
  PROVE  LeaveReads(s, c, q, r)
<1> DEFINE news == [status |-> LEFT, player_id |-> user_json[s]]
<1>1. news.status = LEFT /\ news.player_id = user_json[s]
  OBVIOUS
<1>2. LeaveSent(s)[c] = IF c \in Recipients(s) THEN <<news>> ELSE <<>>
  BY DEF LeaveSent, ToOthers
<1> HIDE DEF news
<1> QED
  BY <1>1, <1>2, SendExtends, SendNothing DEF LeaveReads

-----------------------------------------------------------------------------
(***************************************************************************)
(* The steps of the server that send.                                      *)
(***************************************************************************)

\* Who reads of s: everybody else in the map.
LEMMA RecipientsOf ==
  ASSUME OneLoginInv, NEW s \in Sessions, player_id[s] \in DOMAIN users_map_main
  PROVE  /\ s \notin Recipients(s)
         /\ {player_id[t] : t \in Recipients(s)} = DOMAIN users_map_main \ {player_id[s]}
         /\ {player_id[users_map_main[k]] : k \in Others(s)} = DOMAIN users_map_main \ {player_id[s]}
<1>1. Others(s) = DOMAIN users_map_main \ {player_id[s]}
  BY DEF Others, MoreThanOneEntry
<1>2. \A k \in Others(s) : player_id[users_map_main[k]] = k
  BY <1>1, EntryIsOfId
<1>3. s \notin Recipients(s)
  BY <1>1, <1>2 DEF Recipients
<1>4. {player_id[users_map_main[k]] : k \in Others(s)} = Others(s)
  BY <1>2
<1>5. {player_id[t] : t \in Recipients(s)} = Others(s)
  BY <1>2 DEF Recipients
<1> QED
  BY <1>1, <1>3, <1>4, <1>5

\* The page of a player has heard of its registration only when the server has
\* answered it.
LEMMA HeardIsAnswered ==
  ASSUME SystemInv, NEW c \in Sessions, conn[c] = "open", player_id[c] # 0,
         m_GameLayer[c] \/ \E i \in 1 .. Len(inbox[c]) : inbox[c][i].status = LOGIN_ACK
  PROVE  user_json[c] # 0
BY DEF SystemInv, OneLoginInv, LoginInv, LoginOK, PageOK, InboxOK

LEMMA RegistrationScreen ==
  ASSUME ScreenInv, NEW s \in Sessions, player_id[s] \in DOMAIN users_map_main,
         RegistrationReply(s), NEW c \in Sessions, conn[c] = "open", ~broken,
         inbox'[c] = inbox[c] \o RegistrationSent(s)[c],
         UNCHANGED <<conn, users_map_main, clock, page_vars>>
  PROVE  PageInOrder(c)' /\ PageShowsKnown(c)'
<1> DEFINE q == inbox[c]
           r == q \o RegistrationSent(s)[c]
           L == m_GameLayer[c]
           D == DOMAIN players[c]
           ids == DOMAIN users_map_main
           k == player_id[s]
<1>1. /\ IsSeq(q) /\ L \in BOOLEAN /\ clock \in Nat /\ ids \subseteq 1 .. clock
      /\ InboxInOrder(q, L, D, ids, clock) /\ OneLoginInv /\ ids \subseteq ids
  BY ScreenNats DEF ScreenInv, ScreenOK, PageInOrder, SystemInv
<1>2. /\ s \notin Recipients(s)
      /\ {player_id[t] : t \in Recipients(s)} = ids \ {k}
      /\ {player_id[users_map_main[j]] : j \in Others(s)} = ids \ {k}
  BY <1>1, RecipientsOf
<1>0. r = q \o RegistrationSent(s)[c]
  OBVIOUS
<1>3. /\ user_json[s] = 0 /\ known'[c] = known[c] \cup Told(c, s)
      /\ c # s => user_json'[c] = user_json[c]
  BY <1>1, MapTypes DEF RegistrationReply, RegistrationDue, ScreenInv, ServiceInv,
                        NotYetAnswered, OneLoginInv
<1>4. /\ inbox'[c] = r /\ m_GameLayer'[c] = L /\ players'[c] = players[c]
      /\ users_map_main' = users_map_main /\ clock' = clock
  BY DEF page_vars
<1>8. RegistrationReads(s, c, q, r)
  <2> HIDE DEF q, r
  <2> QED
    BY <1>0, <1>1, <1>2, RegistrationRead
<1>5. CASE c = s
  <2>1. PICK p, scatter, ack :
          /\ Extends(p, q, scatter) /\ Extends(r, p, ack)
          /\ scatter.status = GEM_SCATTER /\ ack.status = LOGIN_ACK
          /\ ack.players = {player_id[t] : t \in Recipients(s)}
    BY <1>5, <1>8 DEF RegistrationReads
  <2> HIDE DEF r
  <2>2. ~L /\ \A i \in 1 .. Len(q) : q[i].status # LOGIN_ACK
    <3>1. player_id[s] # 0
      BY <1>1
    <3> QED
      BY <1>3, <1>5, <3>1, HeardIsAnswered DEF ScreenInv
  <2>3. InboxInOrder(p, L, D, ids, clock)
    BY <1>1, <2>1, SentInOrder DEF IsNews
  <2>4. \A i \in 1 .. Len(p) : p[i].status # LOGIN_ACK
    BY <2>1, <2>2, ExtendsMeans
  <2>5. InboxInOrder(r, L, D, ids, clock)
    BY <1>1, <1>2, <2>1, <2>2, <2>3, <2>4, SentInOrder DEF IsNews
  <2>6. ShowsKnown(r, L, D, ack.players)
    BY <2>1, <2>2, <2>4, AckShows
  <2>7. known[c] \subseteq ids /\ k \notin known[c]
    BY <1>5 DEF ScreenInv, ServiceInv, RosterInv, NoGhosts, EntriesInv
  <2>8. Told(c, s) = ids \ {k}
    BY <1>2, <1>5 DEF Told
  <2>9. known'[c] = ack.players
    BY <1>2, <1>3, <2>1, <2>7, <2>8
  <2> QED
    BY <1>4, <2>5, <2>6, <2>9 DEF PageInOrder, PageShowsKnown
<1>6. CASE c # s /\ c \in Recipients(s)
  <2>1. PICK m : Extends(r, q, m) /\ m.status = OTHER_LOGIN /\ m.player_id = k
    BY <1>6, <1>8 DEF RegistrationReads
  <2> HIDE DEF r
  <2>2. InboxInOrder(r, L, D, ids, clock)
    BY <1>1, <2>1, SentInOrder DEF IsNews
  <2>3. known'[c] = known[c] \cup {k}
    BY <1>3, <1>6 DEF Told
  <2>4. ShowsKnown(q, L, D, known[c]) => ShowsKnown(r, L, D, known'[c])
    BY <2>1, <2>3, SentShows
  <2> QED
    BY <1>3, <1>4, <1>6, <2>2, <2>4 DEF PageInOrder, PageShowsKnown, ScreenInv, ScreenOK
<1>7. CASE c # s /\ c \notin Recipients(s)
  <2>1. r = q
    BY <1>7, <1>8 DEF RegistrationReads
  <2>2. known'[c] = known[c]
    BY <1>3, <1>7 DEF Told
  <2> QED
    BY <1>3, <1>4, <1>7, <2>1, <2>2 DEF PageInOrder, PageShowsKnown, ScreenInv, ScreenOK
<1> QED
  BY <1>5, <1>6, <1>7

LEMMA MovementScreen ==
  ASSUME ScreenInv, NEW s \in Sessions, player_id[s] \in DOMAIN users_map_main,
         users_map_main[player_id[s]] = s,
         MovementReply(s), NEW c \in Sessions, conn[c] = "open", ~broken,
         inbox'[c] = inbox[c] \o MovementSent(s)[c],
         UNCHANGED <<conn, users_map_main, clock, page_vars>>
  PROVE  PageInOrder(c)' /\ PageShowsKnown(c)'
<1> DEFINE q == inbox[c]
           r == q \o MovementSent(s)[c]
           L == m_GameLayer[c]
           D == DOMAIN players[c]
           ids == DOMAIN users_map_main
           k == player_id[s]
<1>1. /\ IsSeq(q) /\ L \in BOOLEAN /\ clock \in Nat /\ ids \subseteq 1 .. clock
      /\ InboxInOrder(q, L, D, ids, clock) /\ OneLoginInv /\ ids \subseteq ids
  BY ScreenNats DEF ScreenInv, ScreenOK, PageInOrder, SystemInv
<1>2. s \notin Recipients(s) /\ {player_id[t] : t \in Recipients(s)} = ids \ {k}
  BY <1>1, RecipientsOf
<1>0. r = q \o MovementSent(s)[c]
  OBVIOUS
<1>3. /\ user_json[s] # 0 /\ known'[c] = known[c]
      /\ user_json'[c] = user_json[c] \/ (c = s /\ user_json[c] # 0)
  <2>1. user_json[s] # 0
    BY <1>1 DEF MovementReply, MovementDue, OneLoginInv, LoginInv, LoginOK
  <2>2. known'[c] = known[c]
    BY DEF MovementReply
  <2>3. user_json' = [user_json EXCEPT ![s] = player_id[s]]
    BY DEF MovementReply, build_gems_score_json, build_player_json_movment
  <2> QED
    BY <1>1, <2>1, <2>2, <2>3, MapTypes DEF OneLoginInv
<1>4. /\ inbox'[c] = r /\ m_GameLayer'[c] = L /\ players'[c] = players[c]
      /\ users_map_main' = users_map_main /\ clock' = clock
  BY DEF page_vars
<1>5. user_json[c] # 0 => ShowsKnown(q, L, D, known[c])
  BY DEF ScreenInv, ScreenOK, PageShowsKnown
<1>8. MovementReads(s, c, q, r)
  <2> HIDE DEF q, r
  <2> QED
    BY <1>0, <1>1, <1>2, MovementRead
<1>6. CASE c = s \/ c \in Recipients(s)
  <2>1. PICK m : /\ Extends(r, q, m) /\ m.status \in {MOVE_ACK, OTHER_MOVE}
                 /\ m.status = OTHER_MOVE => c # s /\ c \in Recipients(s) /\ m.player_id = k
    BY <1>6, <1>8 DEF MovementReads
  <2> HIDE DEF r
  <2>2. m.status = OTHER_MOVE /\ Entered(q, L, Len(q) + 1) => Comes(q, L, D, k, Len(q))
    <3> SUFFICES ASSUME m.status = OTHER_MOVE, Entered(q, L, Len(q) + 1)
                 PROVE  Comes(q, L, D, k, Len(q))
      OBVIOUS
    <3>1. player_id[c] \in ids /\ player_id[c] # 0
      <4>1. player_id[c] \in {player_id[t] : t \in Recipients(s)}
        BY <2>1
      <4>2. player_id[c] \in ids
        BY <1>2, <4>1
      <4> HIDE DEF ids
      <4> QED
        BY <1>1, <4>2
    <3>2. user_json[c] # 0
      <4>1. L \/ \E i \in 1 .. Len(q) : q[i].status = LOGIN_ACK
        BY <2>1, ExtendsMeans DEF Entered
      <4> QED
        BY <3>1, <4>1, HeardIsAnswered DEF ScreenInv
    <3>3. Announced(c) /\ c # s
      BY <2>1, <3>1, <3>2 DEF Announced, Registered
    <3>4. k \in known[c]
      BY <1>3, <3>3 DEF ScreenInv, EntriesInv, EntryOK
    <3> QED
      BY <1>5, <3>2, <3>4 DEF ShowsKnown
  <2>3. InboxInOrder(r, L, D, ids, clock)
    BY <1>1, <2>1, <2>2, SentInOrder DEF IsNews
  <2>4. ShowsKnown(q, L, D, known[c]) => ShowsKnown(r, L, D, known[c])
    BY <2>1, SentShows
  <2> QED
    BY <1>3, <1>4, <1>5, <2>3, <2>4 DEF PageInOrder, PageShowsKnown
<1>7. CASE c # s /\ c \notin Recipients(s)
  <2>1. r = q
    BY <1>7, <1>8 DEF MovementReads
  <2> QED
    BY <1>1, <1>3, <1>4, <1>5, <2>1 DEF PageInOrder, PageShowsKnown
<1> QED
  BY <1>6, <1>7

\* Nobody reads on a connection that is not open, nor from a broken server.
LEMMA UnreadScreen ==
  ASSUME NEW c \in Sessions, inbox'[c] = <<>>, conn'[c] # "open" \/ broken'
  PROVE  PageInOrder(c)' /\ PageShowsKnown(c)'
BY EmptyInOrder DEF PageInOrder, PageShowsKnown

LEMMA VisitScreen ==
  ASSUME ScreenInv, NEW k \in visiting, response_to_client_cp(k),
         Deliver(VisitSent(users_map_main[k])), UNCHANGED page_vars
  PROVE  ScreenOK'
<1> DEFINE s == users_map_main[k]
<1>0. /\ s \in Sessions /\ player_id[s] = k /\ k \in DOMAIN users_map_main /\ ~broken
      /\ OneLoginInv
  BY MapTypes, EntryIsOfId DEF ScreenInv, SystemInv, OneLoginInv, response_to_client_cp
<1>1. UNCHANGED <<conn, users_map_main, clock, player_id>>
  BY DEF response_to_client_cp, Break, net_vars, pss_vars
<1>2. \A c \in Sessions : inbox'[c] =
        IF conn'[c] = "open" /\ ~broken' THEN inbox[c] \o VisitSent(s)[c] ELSE <<>>
  BY DeliverTypes
<1>3. ScreenTypes'
  BY <1>1 DEF ScreenInv, ScreenOK, ScreenTypes, page_vars
<1>4. ASSUME NEW c \in Sessions PROVE PageInOrder(c)' /\ PageShowsKnown(c)'
  <2>1. CASE conn[c] # "open" \/ broken'
    BY <1>1, <1>2, <2>1, UnreadScreen
  <2>2. CASE conn[c] = "open" /\ ~broken'
    <3>1. RegistrationReply(s) \/ MovementReply(s) \/ NothingDue(s)
      BY <2>2 DEF response_to_client_cp, Break
    <3>2. inbox'[c] = inbox[c] \o VisitSent(s)[c]
      BY <1>1, <1>2, <2>2
    <3>3. CASE RegistrationReply(s)
      <4>1. VisitSent(s) = RegistrationSent(s)
        BY <3>3 DEF VisitSent, RegistrationReply, RegistrationDue, MovementDue
      <4> HIDE DEF s
      <4> QED
        BY <1>0, <1>1, <2>2, <3>2, <3>3, <4>1, RegistrationScreen
    <3>4. CASE MovementReply(s)
      <4>1. VisitSent(s) = MovementSent(s)
        BY <3>4 DEF VisitSent, MovementReply, RegistrationDue, MovementDue
      <4>2. users_map_main[player_id[s]] = s
        BY <1>0
      <4> HIDE DEF s
      <4> QED
        BY <1>0, <1>1, <2>2, <3>2, <3>4, <4>1, <4>2, MovementScreen
    <3>5. CASE NothingDue(s)
      <4>1. VisitSent(s)[c] = <<>>
        BY <3>5 DEF VisitSent, NothingDue, Nothing
      <4>2. inbox'[c] = inbox[c]
        BY <3>2, <4>1, ScreenNats, SendNothing DEF ScreenInv
      <4>3. UNCHANGED <<known, user_json>>
        BY <3>5 DEF NothingDue, history_vars
      <4> QED
        BY <1>0, <1>1, <2>2, <4>2, <4>3
           DEF ScreenInv, ScreenOK, PageInOrder, PageShowsKnown, page_vars
    <3> QED
      BY <3>1, <3>3, <3>4, <3>5
  <2> QED
    BY <2>1, <2>2
<1> QED
  BY <1>3, <1>4 DEF ScreenOK

-----------------------------------------------------------------------------
(***************************************************************************)
(* The end of a connection, and the steps at which nothing is sent.        *)
(***************************************************************************)

\* Who reads of the departure is told that the player has left the map.
LEMMA LeftScreen ==
  ASSUME ScreenInv, NEW s \in Sessions, NEW c \in Sessions, c # s, conn[c] = "open",
         PeerInitiatedClose(s), ~Break, inbox'[c] = inbox[c] \o LeaveSent(s)[c],
         m_GameLayer'[c] = m_GameLayer[c], players'[c] = players[c]
  PROVE  PageInOrder(c)' /\ PageShowsKnown(c)'
<1> DEFINE q == inbox[c]
           r == q \o LeaveSent(s)[c]
           L == m_GameLayer[c]
           D == DOMAIN players[c]
           ids == DOMAIN users_map_main
           k == player_id[s]
<1>0. r = q \o LeaveSent(s)[c]
  OBVIOUS
<1>1. /\ IsSeq(q) /\ clock \in Nat /\ InboxInOrder(q, L, D, ids, clock) /\ OneLoginInv
      /\ \A j \in ids : j \in 1 .. clock
  BY ScreenNats DEF ScreenInv, ScreenOK, PageInOrder, SystemInv
<1>2. /\ conn[s] = "open" /\ conn'[c] = conn[c] /\ UNCHANGED <<user_json, clock, broken>>
      /\ known' = Leave(s) /\ ~CloseFaults(s)
      /\ DOMAIN users_map_main' = ids \ {k} /\ ~broken
  BY <1>1, PeerCloseReach, MapTypes DEF OneLoginInv, PeerInitiatedClose, Idle
<1>3. inbox'[c] = r
  OBVIOUS
<1>4. ~broken /\ user_json[c] # 0 => ShowsKnown(q, L, D, known[c])
  BY DEF ScreenInv, ScreenOK, PageShowsKnown
<1>7. LeaveReads(s, c, q, r)
  <2> HIDE DEF q, r
  <2> QED
    BY <1>0, <1>1, LeaveRead
<1>5. CASE c \in Recipients(s)
  <2>1. MoreThanOneEntry(users_map_main) /\ k # 0 /\ user_json[s] = k
    BY <1>1, <1>2, <1>5 DEF Recipients, Others, CloseFaults, OneLoginInv, LoginInv, LoginOK
  <2>2. k \in 1 .. clock
    BY <1>1, <2>1, MapTypes DEF OneLoginInv
  <2>3. known'[c] = known[c] \ {k}
    BY <1>2, <1>5, <2>1 DEF Leave
  <2> HIDE DEF q, r
  <2>4. PICK m : Extends(r, q, m) /\ m.status = LEFT /\ m.player_id = k
    BY <1>5, <1>7, <2>1 DEF LeaveReads, k
  <2> DEFINE ids2 == ids \ {k}
  <2>5. ids2 \subseteq ids /\ k \notin ids2
    OBVIOUS
  <2> HIDE DEF L, D, ids, ids2, k
  <2>6. InboxInOrder(r, L, D, ids2, clock)
    BY <1>1, <2>2, <2>4, <2>5, SentInOrder
  <2>7. ShowsKnown(q, L, D, known[c]) => ShowsKnown(r, L, D, known[c] \ {k})
    BY <2>4, SentShows
  <2> QED
    BY <1>2, <1>3, <1>4, <2>3, <2>6, <2>7
       DEF PageInOrder, PageShowsKnown, L, D, ids, ids2
<1>6. CASE c \notin Recipients(s)
  <2>1. known'[c] = known[c]
    BY <1>2, <1>6 DEF Leave
  <2>2. r = q
    BY <1>6, <1>7 DEF LeaveReads
  <2>3. InboxInOrder(q, L, D, ids \ {k}, clock)
    <3> DEFINE ids2 == ids \ {k}
    <3>1. /\ clock <= clock /\ \A j \in ids2 : j \in ids \/ j \notin 1 .. clock
      BY <1>1
    <3> HIDE DEF q, L, D, ids, k, ids2
    <3>2. InboxInOrder(q, L, D, ids2, clock)
      BY <1>1, <3>1, MapInOrder
    <3> QED
      BY <3>2 DEF ids2
  <2> QED
    BY <1>2, <1>3, <1>4, <2>1, <2>2, <2>3 DEF PageInOrder, PageShowsKnown
<1> QED
  BY <1>5, <1>6

LEMMA ClosesScreen ==
  ASSUME ScreenInv, NEW s \in Sessions, Closes(s)
  PROVE  ScreenOK'
<1>1. \A c \in Sessions : inbox'[c] =
        IF conn'[c] = "open" /\ ~broken' THEN inbox[c] \o LeaveSent(s)[c] ELSE <<>>
  BY DeliverTypes DEF Closes
<1>2. /\ PeerInitiatedClose(s) /\ Page!Gone(s) /\ UNCHANGED <<clock, late_errors>>
      /\ DOMAIN players = Sessions
  <2>1. UNCHANGED clock
    BY DEF Closes, PeerInitiatedClose, Break
  <2>2. PeerInitiatedClose(s) /\ Page!Gone(s) /\ UNCHANGED late_errors
    BY DEF Closes, Page!Gone
  <2> QED
    BY <2>1, <2>2 DEF ScreenInv, ScreenOK, ScreenTypes
<1>3. /\ DOMAIN players' = Sessions /\ DOMAIN players'[s] = {}
      /\ \A c \in Sessions \ {s} : players'[c] = players[c] /\ m_GameLayer'[c] = m_GameLayer[c]
  BY <1>2, ScreenNats DEF Page!Gone, Page!NoPlayers, ScreenInv
<1>4. ScreenTypes'
  BY <1>2, <1>3 DEF ScreenInv, ScreenOK, ScreenTypes
<1>5. conn \in [Sessions -> {"new", "open", "closed"}]
  BY DEF ScreenInv, SystemInv, OneLoginInv, TypeInv, TypeOK, NetTypeOK
<1>6. ASSUME NEW c \in Sessions PROVE PageInOrder(c)' /\ PageShowsKnown(c)'
  <2>1. CASE conn'[c] # "open" \/ broken'
    BY <1>1, <2>1, UnreadScreen
  <2>2. CASE conn'[c] = "open" /\ ~broken'
    <3>1. ~Break /\ conn' = [conn EXCEPT ![s] = "closed"]
      BY <1>2, <2>2 DEF Break, PeerInitiatedClose
    <3>2. c # s /\ conn[c] = "open"
      BY <1>5, <2>2, <3>1
    <3>3. players'[c] = players[c] /\ m_GameLayer'[c] = m_GameLayer[c]
      BY <1>3, <3>2
    <3>4. inbox'[c] = inbox[c] \o LeaveSent(s)[c]
      BY <1>1, <2>2
    <3> QED
      BY <1>2, <3>1, <3>2, <3>3, <3>4, LeftScreen
  <2> QED
    BY <2>1, <2>2
<1> QED
  BY <1>4, <1>6 DEF ScreenOK

\* Nobody is told of a connection that is lost, and its page stays as it is.
LEMMA LosesScreen ==
  ASSUME ScreenInv, NEW s \in Sessions, Loses(s)
  PROVE  ScreenOK'
<1>1. \A c \in Sessions : inbox'[c] =
        IF conn'[c] = "open" /\ ~broken' THEN inbox[c] \o Nothing[c] ELSE <<>>
  BY DeliverTypes DEF Loses
<1>2. /\ conn' = [conn EXCEPT ![s] = "closed"]
      /\ UNCHANGED <<broken, users_map_main, clock, known, user_json>>
      /\ UNCHANGED <<m_GameLayer, players, late_errors>>
  BY DEF Loses, ConnectionLost, history_vars, pss_vars, page_vars
<1>3. ScreenTypes'
  BY <1>2 DEF ScreenInv, ScreenOK, ScreenTypes
<1>4. conn \in [Sessions -> {"new", "open", "closed"}]
  BY DEF ScreenInv, SystemInv, OneLoginInv, TypeInv, TypeOK, NetTypeOK
<1>5. ASSUME NEW c \in Sessions PROVE PageInOrder(c)' /\ PageShowsKnown(c)'
  <2>1. CASE conn'[c] # "open" \/ broken'
    BY <1>1, <2>1, UnreadScreen
  <2>2. CASE conn'[c] = "open" /\ ~broken'
    <3>1. conn[c] = "open"
      BY <1>2, <1>4, <2>2
    <3>2. inbox'[c] = inbox[c] \o Nothing[c] /\ Nothing[c] = <<>>
      BY <1>1, <2>2 DEF Nothing
    <3>3. inbox'[c] = inbox[c]
      BY <3>2, ScreenNats, SendNothing DEF ScreenInv
    <3> QED
      BY <1>2, <3>1, <3>3 DEF ScreenInv, ScreenOK, PageInOrder, PageShowsKnown
  <2> QED
    BY <2>1, <2>2
<1> QED
  BY <1>3, <1>5 DEF ScreenOK

\* A page that goes on over a new connection has nothing to take, and nobody has
\* told it of a player over it.
LEMMA ReconnectsScreen ==
  ASSUME ScreenInv, NEW s \in Sessions, NEW t \in Sessions, Reconnects(s, t)
  PROVE  ScreenOK'
<1>1. /\ conn[s] = "closed" /\ conn[t] = "new" /\ conn' = [conn EXCEPT ![t] = "open"]
      /\ UNCHANGED <<broken, user_json, users_map_main, clock, known, inbox>>
  BY DEF Reconnects, Established, history_vars, Page!Reopens
<1>2. /\ m_GameLayer' = [m_GameLayer EXCEPT ![t] = m_GameLayer[s], ![s] = FALSE]
      /\ players' = [players EXCEPT ![t] = players[s], ![s] = Page!NoPlayers]
      /\ late_errors' = [late_errors EXCEPT ![t] = late_errors[s], ![s] = {}]
  BY DEF Reconnects, Page!Reopens
<1>3. /\ inbox[s] = <<>> /\ inbox[t] = <<>> /\ user_json[t] = 0 /\ clock \in Nat
      /\ conn \in [Sessions -> {"new", "open", "closed"}]
      /\ m_GameLayer \in [Sessions -> BOOLEAN]
  <2>1. inbox[s] = <<>> /\ inbox[t] = <<>>
    BY <1>1 DEF ScreenInv, SystemInv, PageOK
  <2>2. user_json[t] = 0
    BY <1>1 DEF ScreenInv, SystemInv, OneLoginInv, ReachInv, LoginInv, LoginOK
  <2>3. conn \in [Sessions -> {"new", "open", "closed"}]
    BY DEF ScreenInv, SystemInv, OneLoginInv, TypeInv, TypeOK, NetTypeOK
  <2> QED
    BY <2>1, <2>2, <2>3, ScreenNats DEF ScreenInv
<1>4. ScreenTypes'
  <2>1. /\ DOMAIN players = Sessions /\ \A c \in Sessions : DOMAIN players[c] \subseteq 1 .. clock
        /\ late_errors \in [Sessions -> SUBSET {GEM_ACK}]
    BY DEF ScreenInv, ScreenOK, ScreenTypes
  <2>2. DOMAIN Page!NoPlayers = {}
    BY DEF Page!NoPlayers
  <2>3. DOMAIN players' = Sessions /\ \A c \in Sessions : DOMAIN players'[c] \subseteq 1 .. clock
    BY <1>2, <2>1, <2>2
  <2>4. late_errors' \in [Sessions -> SUBSET {GEM_ACK}]
    BY <1>2, <2>1
  <2> QED
    BY <1>1, <2>3, <2>4 DEF ScreenTypes
<1>5. ASSUME NEW c \in Sessions PROVE PageInOrder(c)' /\ PageShowsKnown(c)'
  <2>1. CASE c \in {s, t}
    <3>1. inbox'[c] = <<>>
      BY <1>1, <1>3, <2>1
    <3>2. conn'[c] # "open" \/ user_json'[c] = 0
      BY <1>1, <1>3, <2>1
    <3> QED
      BY <3>1, <3>2, EmptyInOrder DEF PageInOrder, PageShowsKnown
  <2>2. CASE c \notin {s, t}
    <3>1. players'[c] = players[c] /\ m_GameLayer'[c] = m_GameLayer[c] /\ conn'[c] = conn[c]
      BY <1>1, <1>2, <1>3, <2>2 DEF ScreenInv, ScreenOK, ScreenTypes
    <3> QED
      BY <1>1, <3>1 DEF ScreenInv, ScreenOK, PageInOrder, PageShowsKnown
  <2> QED
    BY <2>1, <2>2
<1> QED
  BY <1>4, <1>5 DEF ScreenOK

-----------------------------------------------------------------------------
(***************************************************************************)
(* A page takes a response.                                                *)
(***************************************************************************)

\* What handleServerResponse makes of the page, and what it throws.
ResponseShows(s) ==
  /\ inbox[s] # <<>> /\ inbox' = [inbox EXCEPT ![s] = Tail(@)]
  /\ Shows(Head(inbox[s]), m_GameLayer[s], DOMAIN players[s],
           m_GameLayer'[s], DOMAIN players'[s])
  /\ DOMAIN players' = Sessions /\ late_errors'[s] \subseteq {GEM_ACK}
  /\ late_errors' = [late_errors EXCEPT ![s] = late_errors'[s]]
  /\ \A c \in Sessions \ {s} : players'[c] = players[c] /\ m_GameLayer'[c] = m_GameLayer[c]

LEMMA ResponseScreen ==
  ASSUME ScreenInv, NEW s \in Sessions, Page!handleServerResponse(s)
  PROVE  ResponseShows(s)
<1> USE DEF Page!Receives, Page!LayerReceives, Page!Response, Page!LOGIN_ACK, Page!MOVE_ACK,
            Page!OTHER_LOGIN, Page!OTHER_MOVE, Page!LEFT, Page!GEM_SCATTER, Page!GEM_ACK
<1> DEFINE q == inbox[s]
           m == Head(q)
           L == m_GameLayer[s]
           D == DOMAIN players[s]
<1>1. /\ m_GameLayer \in [Sessions -> BOOLEAN] /\ DOMAIN players = Sessions
      /\ late_errors \in [Sessions -> SUBSET {GEM_ACK}]
      /\ InboxInOrder(q, L, D, DOMAIN users_map_main, clock)
  BY ScreenNats DEF ScreenInv, ScreenOK, ScreenTypes, PageInOrder
<1>2. q # <<>> => m = q[1] /\ 1 \in 1 .. Len(q)
  BY <1>1, TailIsSeq DEF InboxInOrder
<1>3. late_errors[s] \subseteq {GEM_ACK} /\ late_errors = [late_errors EXCEPT ![s] = @]
  BY <1>1
<1>4. CASE Page!TakeGems(s)
  BY <1>1, <1>3, <1>4 DEF Page!TakeGems, ResponseShows, Shows
<1>5. CASE Page!switchToGame(s)
  <2>1. q # <<>> /\ m.status = LOGIN_ACK
    BY <1>5 DEF Page!switchToGame
  <2>2. ~L
    BY <1>1, <1>2, <2>1 DEF InboxInOrder, OneAck
  <2>3. /\ m_GameLayer' = [m_GameLayer EXCEPT ![s] = TRUE] /\ UNCHANGED late_errors
        /\ players' = [players EXCEPT ![s] = Page!PlayersOf(m)]
        /\ inbox' = [inbox EXCEPT ![s] = Tail(@)]
    BY <1>5, <2>2 DEF Page!switchToGame
  <2>4. DOMAIN Page!PlayersOf(m) = m.players
    BY DEF Page!PlayersOf
  <2> QED
    BY <1>1, <1>3, <2>1, <2>2, <2>3, <2>4 DEF ResponseShows, Shows
<1>6. CASE Page!NoLayerYet(s)
  <2>1. PICK n \in {MOVE_ACK, OTHER_LOGIN, OTHER_MOVE, LEFT} : Page!Receives(s, n)
    BY <1>6 DEF Page!NoLayerYet
  <2>2. UNCHANGED <<m_GameLayer, players, late_errors>> /\ ~L
    BY <1>6 DEF Page!NoLayerYet, Page!page_vars
  <2>3. q # <<>> /\ inbox' = [inbox EXCEPT ![s] = Tail(@)] /\ m.status = n /\ n # LOGIN_ACK
    BY <2>1
  <2> QED
    BY <1>1, <1>3, <2>2, <2>3 DEF ResponseShows, Shows
<1>7. CASE Page!syncPlayerActions(s)
  <2>1. /\ q # <<>> /\ inbox' = [inbox EXCEPT ![s] = Tail(@)] /\ m.status = MOVE_ACK
        /\ UNCHANGED <<m_GameLayer, players>>
        /\ \/ late_errors' = [late_errors EXCEPT ![s] = @ \cup {GEM_ACK}]
           \/ UNCHANGED late_errors
    BY <1>7 DEF Page!syncPlayerActions
  <2> QED
    BY <1>1, <1>3, <2>1 DEF ResponseShows, Shows
<1>8. CASE Page!AddOtherPlayerOnRegister(s)
  <2>1. /\ q # <<>> /\ inbox' = [inbox EXCEPT ![s] = Tail(@)] /\ m.status = OTHER_LOGIN /\ L
        /\ UNCHANGED <<m_GameLayer, late_errors>>
        /\ DOMAIN players' = Sessions /\ DOMAIN players'[s] = D \cup {m.player_id}
        /\ \A c \in Sessions \ {s} : players'[c] = players[c]
    BY <1>1, <1>8 DEF Page!AddOtherPlayerOnRegister
  <2> QED
    BY <1>1, <1>3, <2>1 DEF ResponseShows, Shows
<1>9. CASE Page!updateOtherPlayerOnMovment(s)
  <2>1. /\ q # <<>> /\ inbox' = [inbox EXCEPT ![s] = Tail(@)] /\ m.status = OTHER_MOVE /\ L
        /\ UNCHANGED m_GameLayer
    BY <1>9 DEF Page!updateOtherPlayerOnMovment
  <2>2. m.player_id \in D
    <3>1. Comes(q, L, D, m.player_id, 1 - 1)
      BY <1>1, <1>2, <2>1 DEF InboxInOrder, MovesOfShown, Entered
    <3> QED
      BY <3>1 DEF Comes
  <2>3. UNCHANGED late_errors
    BY <1>9, <2>2 DEF Page!updateOtherPlayerOnMovment
  <2>4. players' = [players EXCEPT ![s][m.player_id].player_x_r = @ \o Page!Steps(m)]
    BY <1>9, <2>2 DEF Page!updateOtherPlayerOnMovment
  <2>5. /\ DOMAIN players' = Sessions /\ DOMAIN players'[s] = D
        /\ \A c \in Sessions \ {s} : players'[c] = players[c]
    BY <1>1, <2>4
  <2> QED
    BY <1>1, <1>3, <2>1, <2>3, <2>5 DEF ResponseShows, Shows
<1>10. CASE Page!deletePlayer(s)
  <2>1. /\ q # <<>> /\ inbox' = [inbox EXCEPT ![s] = Tail(@)] /\ m.status = LEFT /\ L
        /\ UNCHANGED <<m_GameLayer, late_errors>>
        /\ DOMAIN players' = Sessions /\ DOMAIN players'[s] = D \ {m.player_id}
        /\ \A c \in Sessions \ {s} : players'[c] = players[c]
    BY <1>1, <1>10 DEF Page!deletePlayer, Page!Restrict
  <2> QED
    BY <1>1, <1>3, <2>1 DEF ResponseShows, Shows
<1> QED
  BY <1>4, <1>5, <1>6, <1>7, <1>8, <1>9, <1>10 DEF Page!handleServerResponse

LEMMA TakesScreen ==
  ASSUME ScreenInv, NEW s \in Sessions, Takes(s)
  PROVE  ScreenOK'
<1>1. ResponseShows(s) /\ UNCHANGED vars /\ conn[s] = "open"
  BY ResponseScreen DEF Takes
<1>2. UNCHANGED <<conn, broken, clock, users_map_main, known, user_json>>
  BY <1>1 DEF vars, net_vars, pss_vars, history_vars
<1>3. /\ m_GameLayer \in [Sessions -> BOOLEAN] /\ m_GameLayer'[s] \in BOOLEAN
      /\ late_errors \in [Sessions -> SUBSET {GEM_ACK}] /\ DOMAIN inbox = Sessions
      /\ \A c \in Sessions : DOMAIN players[c] \subseteq 1 .. clock
  BY <1>1, ScreenNats DEF ScreenInv, ScreenOK, ScreenTypes, SystemInv, PageTypes,
                          ResponseShows, Shows
<1> DEFINE q == inbox[s]
           r == Tail(q)
           m == Head(q)
           L == m_GameLayer[s]
           D == DOMAIN players[s]
           L2 == m_GameLayer'[s]
           D2 == DOMAIN players'[s]
           ids == DOMAIN users_map_main
           told == known[s]
<1>4. /\ InboxInOrder(q, L, D, ids, clock) /\ q # <<>> /\ inbox'[s] = r
      /\ Shows(m, L, D, L2, D2) /\ L \in BOOLEAN /\ L2 \in BOOLEAN /\ told \subseteq ids
      /\ ~broken /\ user_json[s] # 0 => ShowsKnown(q, L, D, told)
  BY <1>1, <1>3 DEF ResponseShows, ScreenInv, ScreenOK, PageInOrder, PageShowsKnown,
                    ServiceInv, RosterInv, NoGhosts
<1>5. Follows(r, q, m)
  BY <1>4, TailFollows DEF InboxInOrder
<1>6. D2 \subseteq 1 .. clock
  <2>1. m = q[1] /\ 1 \in 1 .. Len(q)
    BY <1>5 DEF Follows
  <2> QED
    BY <1>3, <1>4, <2>1 DEF Shows, InboxInOrder, NewsOfIds, IsNews
<1>7. InboxInOrder(r, L2, D2, ids, clock)
  <2> HIDE DEF q, r, m, L, D, L2, D2, ids
  <2> QED
    BY <1>4, <1>5, TakenInOrder
<1>8. ShowsKnown(q, L, D, told) => ShowsKnown(r, L2, D2, told)
  <2> HIDE DEF q, r, m, L, D, L2, D2, ids, told
  <2> QED
    BY <1>4, <1>5, TakenShows
<1>9. ScreenTypes'
  BY <1>1, <1>2, <1>3, <1>6 DEF ResponseShows, ScreenTypes
<1>10. PageInOrder(s)' /\ PageShowsKnown(s)'
  BY <1>2, <1>4, <1>7, <1>8 DEF PageInOrder, PageShowsKnown
<1>11. ASSUME NEW c \in Sessions \ {s} PROVE PageInOrder(c)' /\ PageShowsKnown(c)'
  <2>1. /\ inbox'[c] = inbox[c] /\ players'[c] = players[c]
        /\ m_GameLayer'[c] = m_GameLayer[c]
    BY <1>1, <1>3 DEF ResponseShows
  <2> QED
    BY <1>2, <2>1 DEF ScreenInv, ScreenOK, PageInOrder, PageShowsKnown
<1> QED
  BY <1>9, <1>10, <1>11 DEF ScreenOK

-----------------------------------------------------------------------------
(***************************************************************************)
(* The steps at which nothing is sent and no response is taken.            *)
(***************************************************************************)

LEMMA OthersStepScreen ==
  ASSUME ScreenInv, NEW s \in Sessions, Page!OthersStep(s)
  PROVE  DOMAIN players' = Sessions /\ \A c \in Sessions : DOMAIN players'[c] = DOMAIN players[c]
BY DEF ScreenInv, ScreenOK, ScreenTypes, Page!OthersStep

LEMMA ServerQuietScreen ==
  ASSUME OneLogin, ScreenInv, Quiet,
         \/ game_loop_cb
         \/ \E s \in Sessions : Established(s) \/ Registration(s) \/ Movement(s)
  PROVE  ScreenOK'
<1>1. UNCHANGED <<inbox, m_GameLayer, late_errors, players>> /\ DOMAIN players = Sessions
  BY DEF Quiet, page_vars, ScreenInv, ScreenOK, ScreenTypes
<1>2. SystemInv /\ OneLoginInv /\ ScreenOK /\ clock \in Nat
  BY ScreenNats DEF ScreenInv, SystemInv
<1>3. CASE game_loop_cb
  <2>1. UNCHANGED <<known, user_json, conn, clock, users_map_main, broken>>
    BY <1>3 DEF game_loop_cb, pss_vars, net_vars, history_vars
  <2> QED
    BY <1>1, <1>2, <2>1, QuietScreen
<1>4. ASSUME NEW s \in Sessions, Established(s) PROVE ScreenOK'
  <2>1. UNCHANGED <<known, user_json, clock, users_map_main, broken>>
    BY <1>4 DEF Established, history_vars
  <2>2. \A c \in Sessions : conn'[c] = "open" => conn[c] = "open" \/ user_json[c] = 0
    <3>1. conn[s] = "new" /\ conn' = [conn EXCEPT ![s] = "open"]
      BY <1>4 DEF Established
    <3>2. user_json[s] = 0
      BY <1>2, <3>1 DEF OneLoginInv, ReachInv, LoginInv, LoginOK
    <3> QED
      BY <1>2, <3>1, <3>2, MapTypes DEF OneLoginInv
  <2> QED
    BY <1>1, <1>2, <2>1, <2>2, QuietScreen
<1>5. ASSUME NEW s \in Sessions, Registration(s) PROVE ScreenOK'
  <2>1. UNCHANGED <<known, user_json, conn, broken>> /\ clock' = clock + 1
    BY <1>5 DEF Registration, history_vars, ClockSteps, OneLogin, UniqueIds
  <2>2. DOMAIN users_map_main' = DOMAIN users_map_main \cup {clock + 1}
    BY <1>2, <1>5, RegistrationStep DEF OneLoginInv
  <2>3. \A k \in DOMAIN users_map_main' : k \in DOMAIN users_map_main \/ k \notin 1 .. clock
    BY <1>2, <2>2
  <2> QED
    BY <1>1, <1>2, <2>1, <2>3, QuietScreen
<1>6. ASSUME NEW s \in Sessions, Movement(s) PROVE ScreenOK'
  <2>1. UNCHANGED users_map_main
    BY <1>2, <1>6, MovementReach DEF OneLoginInv
  <2>2. UNCHANGED <<known, user_json, conn, clock>> /\ (broken => broken')
    <3>1. CASE Break
      BY <3>1 DEF Break, net_vars, pss_vars, history_vars
    <3>2. CASE ~Break
      <4>1. UNCHANGED <<conn, user_json, clock, broken>> /\ UNCHANGED history_vars
        BY <1>6, <3>2 DEF Movement
      <4> QED
        BY <4>1 DEF history_vars
    <3> QED
      BY <3>1, <3>2
  <2> QED
    BY <1>1, <1>2, <2>1, <2>2, QuietScreen
<1> QED
  BY <1>3, <1>4, <1>5, <1>6

LEMMA PageQuietScreen ==
  ASSUME ScreenInv, NEW s \in Sessions,
         LogsIn(s) \/ Draws(s) \/ Redials(s) \/ \E hit \in BOOLEAN : Moves(s, hit)
  PROVE  ScreenOK'
<1>1. SystemInv /\ ScreenOK /\ clock \in Nat /\ DOMAIN players = Sessions
  BY ScreenNats DEF ScreenInv, ScreenOK, ScreenTypes
<1>2. UNCHANGED <<known, user_json, conn, clock, users_map_main, broken>>
  <2>1. CASE LogsIn(s)
    BY <2>1 DEF LogsIn, SendLogin, Receive, history_vars, pss_vars
  <2>2. CASE Draws(s) \/ Redials(s)
    BY <2>2 DEF Draws, Redials, vars, net_vars, pss_vars, history_vars
  <2>3. ASSUME NEW hit \in BOOLEAN, Moves(s, hit)
        PROVE  UNCHANGED <<known, user_json, conn, clock, users_map_main, broken>>
    <3>1. PICK m : Receive(s, m)
      BY <2>3 DEF Moves
    <3> QED
      BY <3>1 DEF Receive, history_vars, pss_vars
  <2> QED
    BY <2>1, <2>2, <2>3
<1>3. /\ UNCHANGED <<inbox, m_GameLayer, late_errors>> /\ DOMAIN players' = Sessions
      /\ \A c \in Sessions : DOMAIN players'[c] = DOMAIN players[c]
  <2>1. CASE LogsIn(s)
    BY <1>1, <2>1 DEF LogsIn, Quiet, page_vars
  <2>2. CASE Draws(s)
    BY <2>2, OthersStepScreen DEF Draws, Page!IdleFrame
  <2>3. ASSUME NEW hit \in BOOLEAN, Moves(s, hit)
        PROVE  /\ UNCHANGED <<inbox, m_GameLayer, late_errors>> /\ DOMAIN players' = Sessions
               /\ \A c \in Sessions : DOMAIN players'[c] = DOMAIN players[c]
    BY <2>3, OthersStepScreen DEF Moves, Page!MovingFrame
  <2>4. CASE Redials(s)
    <3>1. \/ inbox' = inbox /\ UNCHANGED page_vars
          \/ \E hit \in BOOLEAN : Page!MovingFrame(s, hit)
      BY <2>4 DEF Redials, Page!Drops, Page!page_vars, page_vars
    <3>2. CASE inbox' = inbox /\ UNCHANGED page_vars
      BY <1>1, <3>2 DEF page_vars
    <3>3. ASSUME NEW hit \in BOOLEAN, Page!MovingFrame(s, hit)
          PROVE  /\ UNCHANGED <<inbox, m_GameLayer, late_errors>> /\ DOMAIN players' = Sessions
                 /\ \A c \in Sessions : DOMAIN players'[c] = DOMAIN players[c]
      BY <3>3, OthersStepScreen DEF Page!MovingFrame
    <3> QED
      BY <3>1, <3>2, <3>3
  <2> QED
    BY <2>1, <2>2, <2>3, <2>4
<1> QED
  BY <1>1, <1>2, <1>3, QuietScreen

-----------------------------------------------------------------------------
(***************************************************************************)
(* The theorems.                                                           *)
(***************************************************************************)

LEMMA NextScreen ==
  ASSUME OneLogin
  PROVE  ScreenInv /\ [SystemNext]_system_vars => ScreenInv'
<1> SUFFICES ASSUME ScreenInv, [SystemNext]_system_vars PROVE ScreenInv'
  OBVIOUS
<1>1. [Next]_vars /\ SystemInv'
  BY NextSystem DEF ScreenInv
<1>2. ServiceInv' /\ EntriesInv'
  BY <1>1, NextService, NextEntries DEF ScreenInv, SystemInv
<1>3. CASE UNCHANGED system_vars
  <2>1. UNCHANGED vars /\ inbox' = inbox /\ UNCHANGED page_vars
    BY <1>3 DEF system_vars
  <2>2. UNCHANGED <<known, user_json, conn, clock, users_map_main, broken>>
    BY <2>1 DEF vars, net_vars, pss_vars, history_vars
  <2>3. UNCHANGED <<m_GameLayer, players, late_errors>>
    BY <2>1 DEF page_vars
  <2>4. ScreenOK'
    BY <2>1, <2>2, <2>3, ScreenNats, QuietScreen DEF ScreenInv, ScreenOK, ScreenTypes
  <2> QED
    BY <1>1, <1>2, <2>4 DEF ScreenInv
<1>4. CASE ServerStep
  <2>1. ScreenOK'
    BY <1>4, VisitScreen, ServerQuietScreen DEF ServerStep, LoopTick, WriteableStep, Writeable
  <2> QED
    BY <1>1, <1>2, <2>1 DEF ScreenInv
<1>5. ASSUME NEW s \in Sessions, PageStep(s) PROVE ScreenInv'
  <2>1. ScreenOK'
    BY <1>5, PageQuietScreen, TakesScreen, ClosesScreen, LosesScreen, ReconnectsScreen
       DEF PageStep
  <2> QED
    BY <1>1, <1>2, <2>1 DEF ScreenInv
<1> QED
  BY <1>3, <1>4, <1>5 DEF SystemNext

LEMMA InitScreen == SystemInit => ScreenInv
<1> SUFFICES ASSUME SystemInit PROVE ScreenInv
  OBVIOUS
<1>1. Init /\ SystemInv /\ ServiceInv /\ EntriesInv
  BY InitSystem, InitService, InitEntries
<1>2. /\ players = [c \in Sessions |-> Page!NoPlayers] /\ DOMAIN Page!NoPlayers = {}
      /\ late_errors = [c \in Sessions |-> {}] /\ inbox = [c \in Sessions |-> <<>>]
  BY DEF SystemInit, Page!Init, Page!NoPlayers
<1>3. ScreenTypes
  BY <1>2 DEF ScreenTypes
<1>4. ASSUME NEW s \in Sessions PROVE PageInOrder(s) /\ PageShowsKnown(s)
  BY <1>1, <1>2, EmptyInOrder DEF PageInOrder, PageShowsKnown, Init
<1> QED
  BY <1>1, <1>3, <1>4 DEF ScreenInv, ScreenOK

LEMMA ScreenInvariant == ASSUME OneLogin PROVE SystemSpec => []ScreenInv
BY InitScreen, NextScreen, PTL DEF SystemSpec

\* A page in the game that has nothing to take, while no registration waits for a
\* tick, shows the players of the server's map and no other: whatever order the
\* registrations, the departures, the losses and the responses came in.
THEOREM ScreensShowPlayers == ASSUME OneLogin PROVE SystemSpec => []ScreenShowsPlayers
<1>1. ASSUME ScreenInv, NEW s \in Sessions, InGame(s), Settled(s)
      PROVE  DOMAIN players[s] = DOMAIN users_map_main \ {player_id[s]}
  <2>1. /\ conn[s] = "open" /\ m_GameLayer[s] /\ inbox[s] = <<>> /\ ~broken
        /\ player_id[s] # 0
        /\ \A k \in DOMAIN users_map_main : ~RegistrationDue(users_map_main[k])
    BY <1>1 DEF InGame, Registered, Settled, Idle
  <2>2. user_json[s] # 0
    BY <1>1, <2>1, HeardIsAnswered DEF ScreenInv
  <2>3. OneLoginInv /\ Announced(s)
    BY <1>1, <2>1, <2>2, MapTypes DEF ScreenInv, SystemInv, OneLoginInv, LoginInv, LoginOK,
                                     Announced, Registered
  <2>4. DOMAIN players[s] = known[s]
    <3>1. ShowsKnown(<<>>, TRUE, DOMAIN players[s], known[s])
      BY <1>1, <2>1, <2>2, ScreenNats DEF ScreenInv, ScreenOK, PageShowsKnown
    <3>2. Len(<<>>) = 0
      BY EmptyIsSeq
    <3> QED
      BY <3>1, <3>2 DEF ShowsKnown, Comes, Goes
  <2>5. known[s] \subseteq DOMAIN users_map_main /\ player_id[s] \notin known[s]
    BY <1>1, <2>1 DEF ScreenInv, ServiceInv, RosterInv, NoGhosts, EntriesInv
  <2>6. ASSUME NEW k \in DOMAIN users_map_main, k # player_id[s] PROVE k \in known[s]
    <3>1. users_map_main[k] # s /\ EntryOK(k)
      BY <1>1, <2>3, <2>6, EntryIsOfId DEF ScreenInv, EntriesInv
    <3> QED
      BY <2>1, <2>3, <3>1 DEF EntryOK
  <2> QED
    BY <2>4, <2>5, <2>6
<1>2. ScreenInv => ScreenShowsPlayers
  BY <1>1 DEF ScreenShowsPlayers
<1> QED
  BY <1>2, ScreenInvariant, PTL

\* In the game no response throws but the acknowledgment of a gem: no move comes
\* for a player that the page does not show, and no second acknowledgment of the
\* login.
THEOREM HandledOnceInGame == ASSUME OneLogin PROVE SystemSpec => []HandledOnceEntered
<1>1. ScreenInv => HandledOnceEntered
  BY DEF ScreenInv, ScreenOK, ScreenTypes, HandledOnceEntered
<1> QED
  BY <1>1, ScreenInvariant, PTL

-----------------------------------------------------------------------------
(***************************************************************************)
(* The steps of player k on a page with inbox q and players P, when `last' *)
(* is the last of them that the server has relayed and k has run into      *)
(* `eaten' gems.                                                           *)
(***************************************************************************)

\* Where the player stands, and then the steps it has still to make.
StepOn(p, i) == IF i = 0 THEN p.x ELSE p.player_x_r[i]

MovesOf(m, k) == m.status = OTHER_MOVE /\ m.player_id = k
IsStep(m, n) ==
  m.collision_status # GEM_ACK /\ \E i \in 1 .. Len(m.player_seq) : n = m.player_seq[i]

MoveInOrder(m, last, eaten) ==
  IF m.collision_status = GEM_ACK THEN eaten > 0
  ELSE /\ m.player_seq \in Seq(Nat)
       /\ \A i \in 1 .. Len(m.player_seq) :
            /\ 0 < m.player_seq[i] /\ m.player_seq[i] <= last
            /\ \A j \in 1 .. i - 1 : m.player_seq[j] < m.player_seq[i]

\* A step to no position at all, and a player that has made one, have come of a gem.
PlayerInOrder(p, last, eaten) ==
  /\ p \in [player_x_r : Seq(Nat), x : Int]
  /\ \A i \in 0 .. Len(p.player_x_r) :
       /\ StepOn(p, i) <= last
       /\ (IF i = 0 THEN StepOn(p, i) < 0 ELSE StepOn(p, i) = 0) => eaten > 0
       /\ \A j \in 0 .. i - 1 :
            StepOn(p, j) > 0 /\ StepOn(p, i) > 0 => StepOn(p, j) < StepOn(p, i)

\* What is under way comes after what the page has.
Precedes(p, m) ==
  \A j \in 0 .. Len(p.player_x_r), n \in Nat : IsStep(m, n) => StepOn(p, j) < n

StepsOK(q, P, k, last, eaten) ==
  /\ \A i \in 1 .. Len(q) : MovesOf(q[i], k) => MoveInOrder(q[i], last, eaten)
  /\ \A i, j \in 1 .. Len(q) : i < j /\ MovesOf(q[i], k) /\ MovesOf(q[j], k) =>
       \A m, n \in Nat : IsStep(q[i], m) /\ IsStep(q[j], n) => m < n
  /\ k \in DOMAIN P =>
       /\ PlayerInOrder(P[k], last, eaten)
       /\ \A i \in 1 .. Len(q) : MovesOf(q[i], k) => Precedes(P[k], q[i])

LEMMA PlayerSteps ==
  ASSUME NEW p \in [player_x_r : Seq(Nat), x : Int]
  PROVE  /\ Len(p.player_x_r) \in Nat /\ p.x \in Int
         /\ \A i \in 0 .. Len(p.player_x_r) : StepOn(p, i) \in Int
BY DEF StepOn

LEMMA PlayerGrows ==
  ASSUME NEW p, NEW last \in Nat, NEW eaten \in Nat, PlayerInOrder(p, last, eaten),
         NEW last2 \in Nat, last <= last2, NEW eaten2 \in Nat, eaten <= eaten2
  PROVE  PlayerInOrder(p, last2, eaten2)
<1>1. \A i \in 0 .. Len(p.player_x_r) : StepOn(p, i) \in Int
  BY PlayerSteps DEF PlayerInOrder
<1> QED
  BY <1>1 DEF PlayerInOrder

LEMMA MoveGrows ==
  ASSUME NEW m, NEW last \in Nat, NEW eaten \in Nat, MoveInOrder(m, last, eaten),
         NEW last2 \in Nat, last <= last2, NEW eaten2 \in Nat, eaten <= eaten2
  PROVE  MoveInOrder(m, last2, eaten2)
BY DEF MoveInOrder

LEMMA StepsGrow ==
  ASSUME NEW q, NEW P, NEW k, NEW last \in Nat, NEW eaten \in Nat, StepsOK(q, P, k, last, eaten),
         NEW last2 \in Nat, last <= last2, NEW eaten2 \in Nat, eaten <= eaten2
  PROVE  StepsOK(q, P, k, last2, eaten2)
BY PlayerGrows, MoveGrows DEF StepsOK

\* The server relays steps that come after all that it has relayed.
LEMMA SentSteps ==
  ASSUME NEW q, NEW P, NEW k, NEW last \in Nat, NEW eaten \in Nat, StepsOK(q, P, k, last, eaten),
         NEW r, NEW m, Extends(r, q, m),
         NEW last2 \in Nat, last <= last2,
         MovesOf(m, k) => /\ MoveInOrder(m, last2, eaten)
                          /\ \A n \in Nat : IsStep(m, n) => last < n
  PROVE  StepsOK(r, P, k, last2, eaten)
<1>1. /\ Len(q) \in Nat /\ Len(r) = Len(q) + 1
      /\ \A i \in 1 .. Len(r) : (i \in 1 .. Len(q) /\ r[i] = q[i]) \/ (i = Len(q) + 1 /\ r[i] = m)
  BY ExtendsMeans
<1>2. StepsOK(q, P, k, last2, eaten)
  BY StepsGrow
<1>3. \A i \in 1 .. Len(q), n \in Nat : MovesOf(q[i], k) /\ IsStep(q[i], n) => n <= last
  BY DEF StepsOK, MoveInOrder, IsStep
<1>4. \A i \in 1 .. Len(r) : MovesOf(r[i], k) => MoveInOrder(r[i], last2, eaten)
  BY <1>1, <1>2 DEF StepsOK
<1>5. ASSUME NEW i \in 1 .. Len(r), NEW j \in 1 .. Len(r), i < j,
             MovesOf(r[i], k), MovesOf(r[j], k),
             NEW a \in Nat, NEW b \in Nat, IsStep(r[i], a), IsStep(r[j], b)
      PROVE  a < b
  <2>1. i \in 1 .. Len(q) /\ r[i] = q[i]
    BY <1>1, <1>5
  <2>2. CASE j \in 1 .. Len(q) /\ r[j] = q[j]
    BY <1>2, <1>5, <2>1, <2>2 DEF StepsOK
  <2>3. CASE r[j] = m
    <3>1. a <= last /\ last < b
      BY <1>3, <1>5, <2>1, <2>3
    <3> QED
      BY <3>1
  <2> QED
    BY <1>1, <2>2, <2>3
<1>6. ASSUME k \in DOMAIN P, NEW i \in 1 .. Len(r), MovesOf(r[i], k)
      PROVE  Precedes(P[k], r[i])
  <2>1. CASE i \in 1 .. Len(q) /\ r[i] = q[i]
    BY <1>6, <2>1 DEF StepsOK
  <2>2. CASE r[i] = m
    <3>1. PlayerInOrder(P[k], last, eaten)
      BY <1>6 DEF StepsOK
    <3>2. \A j \in 0 .. Len(P[k].player_x_r) : StepOn(P[k], j) \in Int /\ StepOn(P[k], j) <= last
      BY <3>1, PlayerSteps DEF PlayerInOrder
    <3> QED
      BY <1>6, <2>2, <3>2 DEF Precedes
  <2> QED
    BY <1>1, <2>1, <2>2
<1> QED
  BY <1>2, <1>4, <1>5, <1>6 DEF StepsOK

\* A response that is not about moves.
LEMMA OtherSteps ==
  ASSUME NEW q, NEW P, NEW k, NEW last \in Nat, NEW eaten \in Nat, StepsOK(q, P, k, last, eaten),
         NEW r, NEW m, Extends(r, q, m), m.status # OTHER_MOVE
  PROVE  StepsOK(r, P, k, last, eaten)
BY SentSteps DEF MovesOf

\* Nothing is under way to the page, or nothing of a new player.
LEMMA EmptySteps ==
  ASSUME NEW q, NEW P, NEW k, NEW last, NEW eaten, StepsOK(q, P, k, last, eaten)
  PROVE  StepsOK(<<>>, P, k, last, eaten)
BY EmptyIsSeq DEF StepsOK

LEMMA NoSteps ==
  ASSUME NEW q, NEW P, NEW k, NEW last, NEW eaten, k \notin DOMAIN P,
         \A i \in 1 .. Len(q) : ~MovesOf(q[i], k)
  PROVE  StepsOK(q, P, k, last, eaten)
BY DEF StepsOK

-----------------------------------------------------------------------------
(***************************************************************************)
(* A page takes a response, or draws a frame.                              *)
(***************************************************************************)

LEMMA NewInOrder ==
  ASSUME NEW last \in Nat, NEW eaten
  PROVE  /\ PlayerInOrder(Page!NewPlayer, last, eaten)
         /\ \A i \in 0 .. Len(Page!NewPlayer.player_x_r) : StepOn(Page!NewPlayer, i) = 0
<1> DEFINE p == Page!NewPlayer
<1>1. p \in [player_x_r : Seq(Nat), x : Int] /\ Len(p.player_x_r) = 0 /\ p.x = 0
  BY DEF Page!NewPlayer
<1> HIDE DEF p
<1>2. \A i \in 0 .. Len(p.player_x_r) : i = 0 /\ StepOn(p, i) = 0
  BY <1>1 DEF StepOn
<1>3. PlayerInOrder(p, last, eaten) /\ \A i \in 0 .. Len(p.player_x_r) : StepOn(p, i) = 0
  BY <1>1, <1>2 DEF PlayerInOrder
<1> QED
  BY <1>3 DEF p

\* The steps of p2 are those of p and those of the move m.
Queues(p2, p, m, last, eaten) ==
  /\ PlayerInOrder(p2, last, eaten)
  /\ \A j \in 0 .. Len(p2.player_x_r) :
       \/ j \in 0 .. Len(p.player_x_r) /\ StepOn(p2, j) = StepOn(p, j)
       \/ IsStep(m, StepOn(p2, j)) \/ StepOn(p2, j) = 0

\* The steps of a move are put behind those of the player.
LEMMA QueuedInOrder ==
  ASSUME NEW p, NEW last \in Nat, NEW eaten \in Nat, PlayerInOrder(p, last, eaten),
         NEW m, MoveInOrder(m, last, eaten), Precedes(p, m),
         NEW p2, p2 = [p EXCEPT !.player_x_r = @ \o Page!Steps(m)]
  PROVE  Queues(p2, p, m, last, eaten)
<1> DEFINE u == p.player_x_r
           v == Page!Steps(m)
           w == u \o v
<1>1. p \in [player_x_r : Seq(Nat), x : Int] /\ u \in Seq(Nat) /\ Len(u) \in Nat
  BY DEF PlayerInOrder
<1>2. /\ v \in Seq(Nat) /\ Len(v) \in Nat
      /\ \A i \in 1 .. Len(v) : IsStep(m, v[i]) \/ (v[i] = 0 /\ eaten > 0)
      /\ \A i \in 1 .. Len(v) : v[i] \in Nat /\ v[i] <= last
      /\ \A i \in 1 .. Len(v) : \A j \in 1 .. i - 1 : v[j] > 0 /\ v[i] > 0 => v[j] < v[i]
      /\ \A i \in 1 .. Len(v) : v[i] = 0 => eaten > 0
  <2>1. CASE m.collision_status = GEM_ACK
    <3>1. v = <<0>> /\ eaten > 0
      BY <2>1 DEF Page!Steps, Page!GEM_ACK, Page!Undefined, MoveInOrder
    <3>2. Len(v) = 1 /\ v[1] = 0 /\ v \in Seq(Nat)
      BY <3>1
    <3> HIDE DEF v
    <3> QED
      BY <3>1, <3>2
  <2>2. CASE m.collision_status # GEM_ACK
    <3>1. v = m.player_seq /\ v \in Seq(Nat)
      BY <2>2 DEF Page!Steps, Page!GEM_ACK, MoveInOrder
    <3> HIDE DEF v
    <3>2. \A i \in 1 .. Len(v) : IsStep(m, v[i])
      BY <2>2, <3>1 DEF IsStep
    <3>3. \A i \in 1 .. Len(v) : 0 < v[i] /\ v[i] <= last /\ \A j \in 1 .. i - 1 : v[j] < v[i]
      BY <2>2, <3>1 DEF MoveInOrder
    <3> QED
      BY <3>1, <3>2, <3>3
  <2> QED
    BY <2>1, <2>2
<1>3. /\ w \in Seq(Nat) /\ Len(w) = Len(u) + Len(v)
      /\ \A i \in 1 .. Len(u) + Len(v) : w[i] = IF i <= Len(u) THEN u[i] ELSE v[i - Len(u)]
  <2> HIDE DEF u, v
  <2> QED
    BY <1>1, <1>2, ConcatProperties
<1>4. p2.player_x_r = w /\ p2.x = p.x /\ p2 \in [player_x_r : Seq(Nat), x : Int]
  BY <1>1, <1>3
<1>0. /\ StepOn(p, 0) = p.x /\ \A i \in Nat \ {0} : StepOn(p, i) = u[i]
      /\ StepOn(p2, 0) = p.x /\ \A i \in Nat \ {0} : StepOn(p2, i) = w[i]
  BY <1>4 DEF StepOn
<1> HIDE DEF u, v, w
<1>5. ASSUME NEW i \in 0 .. Len(w)
      PROVE  \/ i \in 0 .. Len(u) /\ StepOn(p2, i) = StepOn(p, i)
             \/ i - Len(u) \in 1 .. Len(v) /\ i # 0 /\ StepOn(p2, i) = v[i - Len(u)]
  <2>1. CASE i = 0
    BY <1>0, <1>1, <2>1
  <2>2. CASE i \in 1 .. Len(u)
    <3>1. i \in Nat \ {0} /\ i \in 1 .. Len(u) + Len(v) /\ i <= Len(u)
      BY <1>1, <1>2, <2>2
    <3>2. w[i] = u[i]
      BY <1>3, <3>1
    <3>3. StepOn(p2, i) = w[i] /\ StepOn(p, i) = u[i]
      BY <1>0, <3>1
    <3> QED
      BY <1>1, <2>2, <3>2, <3>3
  <2>3. CASE i > Len(u)
    <3>1. /\ i \in Nat \ {0} /\ i \in 1 .. Len(u) + Len(v) /\ ~(i <= Len(u))
          /\ i - Len(u) \in 1 .. Len(v)
      BY <1>1, <1>2, <1>3, <2>3
    <3>2. w[i] = v[i - Len(u)]
      BY <1>3, <3>1
    <3> QED
      BY <1>0, <3>1, <3>2
  <2> QED
    BY <1>1, <2>1, <2>2, <2>3
<1>6. /\ \A i \in 0 .. Len(u) : StepOn(p, i) \in Int /\ StepOn(p, i) <= last
      /\ \A i \in 0 .. Len(u) :
           (IF i = 0 THEN StepOn(p, i) < 0 ELSE StepOn(p, i) = 0) => eaten > 0
      /\ \A i \in 0 .. Len(u) : \A j \in 0 .. i - 1 :
           StepOn(p, j) > 0 /\ StepOn(p, i) > 0 => StepOn(p, j) < StepOn(p, i)
  BY PlayerSteps DEF PlayerInOrder, u
<1>7. ASSUME NEW i \in 0 .. Len(u), NEW j \in 1 .. Len(v), v[j] > 0
      PROVE  StepOn(p, i) < v[j]
  <2>1. IsStep(m, v[j]) /\ v[j] \in Nat
    BY <1>2, <1>7
  <2> QED
    BY <2>1 DEF Precedes, u
<1>8. \A i \in 0 .. Len(w) :
        /\ StepOn(p2, i) <= last
        /\ (IF i = 0 THEN StepOn(p2, i) < 0 ELSE StepOn(p2, i) = 0) => eaten > 0
  BY <1>2, <1>5, <1>6
<1>9. ASSUME NEW i \in 0 .. Len(w), NEW j \in 0 .. i - 1, StepOn(p2, j) > 0, StepOn(p2, i) > 0
      PROVE  StepOn(p2, j) < StepOn(p2, i)
  <2>0. j \in 0 .. Len(w)
    OBVIOUS
  <2>1. CASE i \in 0 .. Len(u) /\ StepOn(p2, i) = StepOn(p, i)
    <3>1. j \in 0 .. Len(u) /\ ~(j - Len(u) \in 1 .. Len(v))
      BY <1>1, <2>1
    <3>2. StepOn(p2, j) = StepOn(p, j)
      BY <1>5, <2>0, <3>1
    <3> QED
      BY <1>6, <1>9, <2>1, <3>1, <3>2
  <2>2. CASE i - Len(u) \in 1 .. Len(v) /\ StepOn(p2, i) = v[i - Len(u)]
    <3>1. CASE j \in 0 .. Len(u) /\ StepOn(p2, j) = StepOn(p, j)
      BY <1>7, <1>9, <2>2, <3>1
    <3>2. CASE j - Len(u) \in 1 .. Len(v) /\ StepOn(p2, j) = v[j - Len(u)]
      <4>1. j - Len(u) \in 1 .. (i - Len(u)) - 1
        BY <1>1, <2>2, <3>2
      <4> QED
        BY <1>2, <1>9, <2>2, <3>2, <4>1
    <3> QED
      BY <1>5, <2>0, <3>1, <3>2
  <2> QED
    BY <1>5, <2>1, <2>2
<1>10. PlayerInOrder(p2, last, eaten)
  BY <1>4, <1>8, <1>9 DEF PlayerInOrder
<1> QED
  BY <1>2, <1>4, <1>5, <1>10 DEF u, Queues

\* A frame takes the first step off the queue.
LEMMA SteppedInOrder ==
  ASSUME NEW p, NEW last \in Nat, NEW eaten \in Nat, PlayerInOrder(p, last, eaten),
         NEW p2, p2 = Page!Stepped(p)
  PROVE  /\ PlayerInOrder(p2, last, eaten)
         /\ \A j \in 0 .. Len(p2.player_x_r) :
              StepOn(p2, j) < 0 \/ \E i \in 0 .. Len(p.player_x_r) : StepOn(p2, j) = StepOn(p, i)
<1> DEFINE u == p.player_x_r
           w == Tail(u)
<1>1. p \in [player_x_r : Seq(Nat), x : Int] /\ u \in Seq(Nat) /\ Len(u) \in Nat /\ p.x \in Int
  BY DEF PlayerInOrder
<1>2. CASE u = <<>>
  <2>1. p2 = p
    BY <1>2 DEF Page!Stepped
  <2> QED
    BY <2>1
<1>3. CASE u # <<>>
  <2>1. /\ w \in Seq(Nat) /\ Len(w) = Len(u) - 1 /\ \A i \in 1 .. Len(w) : w[i] = u[i + 1]
        /\ Head(u) = u[1] /\ Head(u) \in Nat
    BY <1>1, <1>3
  <2>2. p2 = [player_x_r |-> w, x |-> Page!Moved(p.x, Head(u))]
    BY <1>3 DEF Page!Stepped
  <2>3. p2.player_x_r = w /\ p2.x = Page!Moved(p.x, u[1])
    BY <2>1, <2>2
  <2>4. p2.x = -1 \/ p2.x = u[1]
    BY <2>3 DEF Page!Moved, Page!NaN
  <2>5. p2 \in [player_x_r : Seq(Nat), x : Int]
    BY <1>1, <2>1, <2>2, <2>3, <2>4
  <2>0. /\ \A i \in Nat \ {0} : StepOn(p, i) = u[i]
        /\ StepOn(p2, 0) = p2.x /\ \A i \in Nat \ {0} : StepOn(p2, i) = w[i]
    BY <2>3 DEF StepOn
  <2> HIDE DEF u, w
  <2>6. ASSUME NEW i \in 0 .. Len(w)
        PROVE  \/ i = 0 /\ StepOn(p2, i) = -1
               \/ i + 1 \in 1 .. Len(u) /\ StepOn(p2, i) = StepOn(p, i + 1)
    <3>1. CASE i = 0
      <4>1. 1 \in 1 .. Len(u) /\ StepOn(p, 0 + 1) = u[1]
        BY <1>1, <2>0, <2>1
      <4> QED
        BY <2>0, <2>4, <3>1, <4>1
    <3>2. CASE i \in 1 .. Len(w)
      <4>0. Len(u) \in Nat /\ Len(w) = Len(u) - 1
        BY <1>1, <2>1
      <4>1. i \in Nat \ {0} /\ i + 1 \in Nat \ {0} /\ i + 1 \in 1 .. Len(u)
        BY <3>2, <4>0
      <4>2. StepOn(p2, i) = w[i] /\ StepOn(p, i + 1) = u[i + 1]
        BY <2>0, <4>1
      <4>3. w[i] = u[i + 1]
        BY <2>1, <3>2
      <4> QED
        BY <4>1, <4>2, <4>3
    <3> QED
      BY <2>1, <3>1, <3>2
  <2>7. /\ \A i \in 0 .. Len(u) : StepOn(p, i) \in Int /\ StepOn(p, i) <= last
        /\ \A i \in 0 .. Len(u) :
             (IF i = 0 THEN StepOn(p, i) < 0 ELSE StepOn(p, i) = 0) => eaten > 0
        /\ \A i \in 0 .. Len(u) : \A j \in 0 .. i - 1 :
             StepOn(p, j) > 0 /\ StepOn(p, i) > 0 => StepOn(p, j) < StepOn(p, i)
    BY PlayerSteps DEF PlayerInOrder, u
  <2>8. \A i \in 1 .. Len(u) : StepOn(p, i) = u[i] /\ u[i] \in Nat
    BY <1>1 DEF StepOn, u
  <2>9. ASSUME StepOn(p2, 0) < 0 PROVE eaten > 0
    <3>1. p.x = -1 \/ u[1] = 0
      BY <2>1, <2>3, <2>8, <2>9 DEF StepOn, Page!Moved, Page!NaN, Page!Undefined
    <3>2. 0 \in 0 .. Len(u) /\ 1 \in 0 .. Len(u) /\ StepOn(p, 0) = p.x /\ StepOn(p, 1) = u[1]
      BY <1>1, <2>1 DEF StepOn, u
    <3> QED
      BY <2>7, <3>1, <3>2
  <2>10. \A i \in 0 .. Len(w) :
           /\ StepOn(p2, i) <= last
           /\ (IF i = 0 THEN StepOn(p2, i) < 0 ELSE StepOn(p2, i) = 0) => eaten > 0
    BY <2>6, <2>7, <2>9
  <2>11. ASSUME NEW i \in 0 .. Len(w), NEW j \in 0 .. i - 1, StepOn(p2, j) > 0, StepOn(p2, i) > 0
         PROVE  StepOn(p2, j) < StepOn(p2, i)
    <3>1. /\ i + 1 \in 0 .. Len(u) /\ StepOn(p2, i) = StepOn(p, i + 1)
          /\ j + 1 \in 0 .. (i + 1) - 1 /\ StepOn(p2, j) = StepOn(p, j + 1)
      BY <2>6, <2>11
    <3> QED
      BY <2>7, <2>11, <3>1
  <2>12. PlayerInOrder(p2, last, eaten)
    BY <2>3, <2>5, <2>10, <2>11 DEF PlayerInOrder
  <2> QED
    BY <2>3, <2>6, <2>12 DEF u
<1> QED
  BY <1>2, <1>3

LEMMA TakenSteps ==
  ASSUME NEW q, NEW P, NEW k, NEW last \in Nat, NEW eaten \in Nat, StepsOK(q, P, k, last, eaten),
         NEW r, NEW m, Follows(r, q, m), NEW P2,
         k \in DOMAIN P2 =>
           \/ P2[k] = Page!NewPlayer
           \/ k \in DOMAIN P /\ P2[k] = P[k]
           \/ /\ k \in DOMAIN P /\ MovesOf(m, k)
              /\ P2[k] = [P[k] EXCEPT !.player_x_r = @ \o Page!Steps(m)]
  PROVE  StepsOK(r, P2, k, last, eaten)
<1>1. /\ Len(q) \in Nat /\ Len(r) \in Nat /\ Len(q) = Len(r) + 1
      /\ q[1] = m /\ 1 \in 1 .. Len(q)
      /\ \A i \in 1 .. Len(r) : i + 1 \in 1 .. Len(q) /\ r[i] = q[i + 1]
  BY DEF Follows
<1>2. \A i \in 1 .. Len(r) : MovesOf(r[i], k) => MoveInOrder(r[i], last, eaten)
  BY <1>1 DEF StepsOK
<1>3. ASSUME NEW i \in 1 .. Len(r), NEW j \in 1 .. Len(r), i < j,
             MovesOf(r[i], k), MovesOf(r[j], k),
             NEW a \in Nat, NEW b \in Nat, IsStep(r[i], a), IsStep(r[j], b)
      PROVE  a < b
  <2>1. /\ i + 1 \in 1 .. Len(q) /\ j + 1 \in 1 .. Len(q) /\ i + 1 < j + 1
        /\ r[i] = q[i + 1] /\ r[j] = q[j + 1]
    BY <1>1, <1>3
  <2> QED
    BY <1>3, <2>1 DEF StepsOK
<1>4. ASSUME NEW i \in 1 .. Len(r), MovesOf(r[i], k), NEW n \in Nat, IsStep(r[i], n)
      PROVE  n > 0
  BY <1>2, <1>4 DEF MoveInOrder, IsStep
<1>5. ASSUME k \in DOMAIN P2
      PROVE  /\ PlayerInOrder(P2[k], last, eaten)
             /\ \A i \in 1 .. Len(r) : MovesOf(r[i], k) => Precedes(P2[k], r[i])
  <2>1. CASE P2[k] = Page!NewPlayer
    <3>1. ASSUME NEW i \in 1 .. Len(r), MovesOf(r[i], k) PROVE Precedes(P2[k], r[i])
      BY <1>4, <2>1, <3>1, NewInOrder DEF Precedes
    <3> QED
      BY <2>1, <3>1, NewInOrder
  <2>2. CASE k \in DOMAIN P /\ P2[k] = P[k]
    BY <1>1, <2>2 DEF StepsOK
  <2>3. CASE /\ k \in DOMAIN P /\ MovesOf(m, k)
             /\ P2[k] = [P[k] EXCEPT !.player_x_r = @ \o Page!Steps(m)]
    <3> DEFINE p == P[k]
               p2 == P2[k]
    <3>1. PlayerInOrder(p, last, eaten) /\ MoveInOrder(m, last, eaten) /\ Precedes(p, m)
      BY <1>1, <2>3 DEF StepsOK
    <3>2. Queues(p2, p, m, last, eaten)
      <4>1. p2 = [p EXCEPT !.player_x_r = @ \o Page!Steps(m)]
        BY <2>3
      <4> HIDE DEF p, p2
      <4> QED
        BY <3>1, <4>1, QueuedInOrder
    <3>3. ASSUME NEW i \in 1 .. Len(r), MovesOf(r[i], k),
                 NEW j \in 0 .. Len(p2.player_x_r), NEW n \in Nat, IsStep(r[i], n)
          PROVE  StepOn(p2, j) < n
      <4>0. i + 1 \in 1 .. Len(q) /\ 1 < i + 1 /\ r[i] = q[i + 1]
        BY <1>1
      <4>1. CASE j \in 0 .. Len(p.player_x_r) /\ StepOn(p2, j) = StepOn(p, j)
        <5>1. Precedes(p, q[i + 1])
          BY <2>3, <3>3, <4>0 DEF StepsOK
        <5> QED
          BY <3>3, <4>0, <4>1, <5>1 DEF Precedes
      <4>2. CASE IsStep(m, StepOn(p2, j))
        <5>1. StepOn(p2, j) \in Nat
          BY <3>1, <4>2 DEF MoveInOrder, IsStep
        <5> QED
          BY <1>1, <2>3, <3>3, <4>0, <4>2, <5>1 DEF StepsOK
      <4>3. CASE StepOn(p2, j) = 0
        BY <1>4, <3>3, <4>3
      <4> QED
        BY <3>2, <4>1, <4>2, <4>3 DEF Queues
    <3> QED
      BY <3>2, <3>3 DEF Precedes, Queues
  <2> QED
    BY <1>5, <2>1, <2>2, <2>3
<1> QED
  BY <1>2, <1>3, <1>5 DEF StepsOK

LEMMA FrameSteps ==
  ASSUME NEW q, NEW P, NEW k, NEW last \in Nat, NEW eaten \in Nat, StepsOK(q, P, k, last, eaten),
         NEW P2, k \in DOMAIN P2 => k \in DOMAIN P /\ P2[k] = Page!Stepped(P[k])
  PROVE  StepsOK(q, P2, k, last, eaten)
<1>1. ASSUME k \in DOMAIN P2
      PROVE  /\ PlayerInOrder(P2[k], last, eaten)
             /\ \A i \in 1 .. Len(q) : MovesOf(q[i], k) => Precedes(P2[k], q[i])
  <2> DEFINE p == P[k]
             p2 == P2[k]
  <2>1. PlayerInOrder(p, last, eaten) /\ p2 = Page!Stepped(p)
    BY <1>1 DEF StepsOK
  <2>2. /\ PlayerInOrder(p2, last, eaten)
        /\ \A j \in 0 .. Len(p2.player_x_r) : StepOn(p2, j) < 0
             \/ \E i \in 0 .. Len(p.player_x_r) : StepOn(p2, j) = StepOn(p, i)
    <3> HIDE DEF p, p2
    <3> QED
      BY <2>1, SteppedInOrder
  <2>3. \A j \in 0 .. Len(p2.player_x_r) : StepOn(p2, j) \in Int
    BY <2>2, PlayerSteps DEF PlayerInOrder
  <2>4. ASSUME NEW i \in 1 .. Len(q), MovesOf(q[i], k) PROVE Precedes(p2, q[i])
    <3>1. Precedes(p, q[i])
      BY <1>1, <2>4 DEF StepsOK
    <3> HIDE DEF p, p2
    <3> QED
      BY <2>2, <2>3, <3>1 DEF Precedes
  <2> QED
    BY <2>2, <2>4
<1> QED
  BY <1>1 DEF StepsOK

-----------------------------------------------------------------------------
(***************************************************************************)
(* The invariant: what every page has, and has still to take, of the steps *)
(* of every player.                                                        *)
(***************************************************************************)
DistinctIds ==
  \A a, b \in Sessions : player_id[a] = player_id[b] /\ player_id[a] # 0 => a = b

StepsOf(c, t) == StepsOK(inbox[c], players[c], player_id[t], last_relayed[t], gems_eaten[t])
PageSteps(c) == \A t \in Sessions : player_id[t] # 0 => StepsOf(c, t)

StepsInv == ScreenInv /\ DistinctIds /\ \A c \in Sessions : PageSteps(c)

LEMMA StepTypes ==
  ASSUME TypeInv, NEW t \in Sessions
  PROVE  /\ last_relayed \in [Sessions -> Nat] /\ last_relayed[t] \in Nat
         /\ gems_eaten \in [Sessions -> Nat] /\ gems_eaten[t] \in Nat
         /\ player_id[t] \in 0 .. clock /\ clock \in Nat
BY DEF TypeInv, TypeOK, PssTypeOK, GameTypeOK, ClientTypeOK, HistoryTypeOK

\* What has been relayed and eaten only grows.
Grows(t) ==
  /\ last_relayed'[t] \in Nat /\ last_relayed[t] <= last_relayed'[t]
  /\ gems_eaten'[t] \in Nat /\ gems_eaten[t] <= gems_eaten'[t]

LEMMA SameGrows ==
  ASSUME TypeInv, NEW t \in Sessions, last_relayed'[t] = last_relayed[t],
         gems_eaten'[t] = gems_eaten[t]
  PROVE  Grows(t)
BY StepTypes DEF Grows

\* The page is not told anything, or nothing is under way to it any more.
LEMMA QuietSteps ==
  ASSUME TypeInv, NEW c \in Sessions, PageSteps(c), UNCHANGED player_id,
         players'[c] = players[c], inbox'[c] \in {inbox[c], <<>>},
         \A t \in Sessions : Grows(t)
  PROVE  PageSteps(c)'
<1>1. ASSUME NEW t \in Sessions, player_id[t] # 0 PROVE StepsOf(c, t)'
  <2> DEFINE q == inbox[c]
             P == players[c]
             k == player_id[t]
             last == last_relayed[t]
             eaten == gems_eaten[t]
             last2 == last_relayed'[t]
             eaten2 == gems_eaten'[t]
  <2>1. /\ StepsOK(q, P, k, last, eaten) /\ last \in Nat /\ eaten \in Nat
        /\ last2 \in Nat /\ eaten2 \in Nat /\ last <= last2 /\ eaten <= eaten2
    BY <1>1, StepTypes DEF PageSteps, StepsOf, Grows
  <2>2. StepsOK(q, P, k, last2, eaten2) /\ StepsOK(<<>>, P, k, last2, eaten2)
    <3> HIDE DEF q, P, k, last, eaten, last2, eaten2
    <3>1. StepsOK(q, P, k, last2, eaten2)
      BY <2>1, StepsGrow
    <3> QED
      BY <3>1, EmptySteps
  <2> QED
    BY <2>2 DEF StepsOf
<1> QED
  BY <1>1 DEF PageSteps

\* What the server relays of s comes after all that it has relayed.
RelaysNext(s) ==
  IF collision_status[s] = GEM_EAT THEN gems_eaten[s] > 0
  ELSE /\ collision_status[s] = 0 /\ player_seq[s] \in Seq(Nat)
       /\ \A i \in 1 .. Len(player_seq[s]) :
            /\ last_relayed[s] < player_seq[s][i] /\ player_seq[s][i] <= last_relayed'[s]
            /\ \A j \in 1 .. i - 1 : player_seq[s][j] < player_seq[s][i]

LEMMA RelayedMove ==
  ASSUME TypeInv, QueueInv, EntriesInv, NEW s \in Sessions, MovementReply(s),
         UNCHANGED gems_eaten
  PROVE  RelaysNext(s) /\ \A t \in Sessions : Grows(t)
<1> DEFINE u == player_seq[s]
<1>1. /\ u \in Seq(Nat) /\ Len(u) \in Nat /\ last_relayed \in [Sessions -> Nat]
      /\ \A i \in 1 .. Len(u) : u[i] \in Nat
      /\ collision_status[s] \in {0, GEM_EAT} /\ MoveOrder(s) /\ u # <<>>
  BY QueueTypes DEF TypeInv, TypeOK, PssTypeOK, MoveQueued, QueueInv, QueueOK,
                    MovementReply, MovementDue
<1>2. CASE collision_status[s] = GEM_EAT
  <2>1. UNCHANGED last_relayed
    BY <1>2 DEF MovementReply
  <2> QED
    BY <1>2, <2>1, SameGrows DEF RelaysNext, EntriesInv, EatenOK
<1>3. CASE collision_status[s] # GEM_EAT
  <2>1. last_relayed' = [last_relayed EXCEPT ![s] = u[Len(u)]]
    BY <1>3 DEF MovementReply, build_player_json_movment
  <2>2. Len(u) \in 1 .. Len(u)
    BY <1>1
  <2>3. /\ last_relayed'[s] = u[Len(u)] /\ last_relayed[s] < u[Len(u)]
        /\ \A t \in Sessions \ {s} : last_relayed'[t] = last_relayed[t]
    BY <1>1, <2>1, <2>2 DEF MoveOrder
  <2>4. ASSUME NEW i \in 1 .. Len(u) PROVE u[i] <= u[Len(u)]
    <3>1. CASE i = Len(u)
      BY <1>1, <2>2, <3>1
    <3>2. CASE i \in 1 .. Len(u) - 1
      <4>1. u[i] < u[Len(u)]
        BY <1>1, <2>2, <3>2 DEF MoveOrder
      <4> QED
        BY <1>1, <2>2, <4>1
    <3> QED
      BY <1>1, <3>1, <3>2
  <2>5. RelaysNext(s)
    BY <1>1, <1>3, <2>3, <2>4 DEF RelaysNext, MoveOrder
  <2>6. Grows(s)
    BY <1>1, <2>2, <2>3, StepTypes DEF Grows
  <2> QED
    BY <2>3, <2>5, <2>6, SameGrows
<1> QED
  BY <1>2, <1>3

-----------------------------------------------------------------------------
(***************************************************************************)
(* The server's steps that send.                                           *)
(***************************************************************************)

\* The registration of s is no move, whoever reads it.
LEMMA RegistrationSteps ==
  ASSUME NEW s \in Sessions, NEW c \in Sessions, NEW q, NEW r, RegistrationReads(s, c, q, r),
         NEW P, NEW k, NEW last \in Nat, NEW eaten \in Nat, StepsOK(q, P, k, last, eaten)
  PROVE  StepsOK(r, P, k, last, eaten)
<1>1. CASE c = s
  <2>1. PICK p, scatter, ack :
          /\ Extends(p, q, scatter) /\ Extends(r, p, ack)
          /\ scatter.status = GEM_SCATTER /\ ack.status = LOGIN_ACK
    BY <1>1 DEF RegistrationReads
  <2>2. StepsOK(p, P, k, last, eaten)
    BY <2>1, OtherSteps
  <2> QED
    BY <2>1, <2>2, OtherSteps
<1>2. CASE c # s /\ c \in Recipients(s)
  <2>1. PICK m : Extends(r, q, m) /\ m.status = OTHER_LOGIN
    BY <1>2 DEF RegistrationReads
  <2> QED
    BY <2>1, OtherSteps
<1>3. CASE c # s /\ c \notin Recipients(s)
  BY <1>3 DEF RegistrationReads
<1> QED
  BY <1>1, <1>2, <1>3

\* The move of s, to one that reads it, is of the player s.
LEMMA MovementSteps ==
  ASSUME TypeInv, DistinctIds, NEW s \in Sessions, RelaysNext(s),
         NEW c \in Sessions, NEW q, NEW r, MovementReads(s, c, q, r),
         NEW t \in Sessions, player_id[t] # 0, Grows(t), UNCHANGED gems_eaten,
         NEW P, StepsOK(q, P, player_id[t], last_relayed[t], gems_eaten[t])
  PROVE  StepsOK(r, P, player_id[t], last_relayed'[t], gems_eaten[t])
<1> DEFINE k == player_id[t]
           last == last_relayed[t]
           last2 == last_relayed'[t]
           eaten == gems_eaten[t]
<1>1. last \in Nat /\ last2 \in Nat /\ last <= last2 /\ eaten \in Nat
  BY StepTypes DEF Grows
<1>2. CASE c = s
  <2>1. PICK m : Extends(r, q, m) /\ m.status = MOVE_ACK
    BY <1>2 DEF MovementReads
  <2>2. ~MovesOf(m, k)
    BY <2>1 DEF MovesOf
  <2> HIDE DEF k, last, last2, eaten
  <2>3. StepsOK(q, P, k, last, eaten)
    BY DEF k, last, eaten
  <2>4. StepsOK(r, P, k, last2, eaten)
    BY <1>1, <2>1, <2>2, <2>3, SentSteps
  <2> QED
    BY <2>4 DEF k, last2, eaten
<1>3. CASE c # s /\ c \in Recipients(s)
  <2>1. PICK m :
          /\ Extends(r, q, m) /\ m.status = OTHER_MOVE /\ m.player_id = player_id[s]
          /\ IF collision_status[s] = GEM_EAT THEN m.collision_status = GEM_ACK
             ELSE /\ m.collision_status = collision_status[s]
                  /\ m.player_seq = player_seq[s]
    BY <1>3 DEF MovementReads
  <2>2. ASSUME MovesOf(m, k)
        PROVE  /\ MoveInOrder(m, last2, eaten)
               /\ \A n \in Nat : IsStep(m, n) => last < n
    <3>1. t = s
      BY <2>1, <2>2 DEF MovesOf, DistinctIds
    <3>2. CASE collision_status[s] = GEM_EAT
      BY <2>1, <3>1, <3>2 DEF RelaysNext, MoveInOrder, IsStep
    <3>3. CASE collision_status[s] # GEM_EAT
      <4>1. /\ m.collision_status = 0 /\ m.player_seq = player_seq[s]
            /\ player_seq[s] \in Seq(Nat)
            /\ \A i \in 1 .. Len(player_seq[s]) :
                 /\ last < player_seq[s][i] /\ player_seq[s][i] <= last2
                 /\ player_seq[s][i] \in Nat
                 /\ \A j \in 1 .. i - 1 : player_seq[s][j] < player_seq[s][i]
        BY <2>1, <3>1, <3>3 DEF RelaysNext
      <4> QED
        BY <1>1, <4>1 DEF MoveInOrder, IsStep
    <3> QED
      BY <3>2, <3>3
  <2>3. StepsOK(q, P, k, last, eaten)
    OBVIOUS
  <2> HIDE DEF k, last, last2, eaten
  <2>4. StepsOK(r, P, k, last2, eaten)
    BY <1>1, <2>1, <2>2, <2>3, SentSteps
  <2> QED
    BY <2>4 DEF k, last2, eaten
<1>4. CASE c # s /\ c \notin Recipients(s)
  <2>1. StepsOK(q, P, k, last, eaten) /\ r = q
    BY <1>4 DEF MovementReads
  <2> HIDE DEF k, last, last2, eaten
  <2>2. StepsOK(r, P, k, last2, eaten)
    BY <1>1, <2>1, StepsGrow
  <2> QED
    BY <2>2 DEF k, last2, eaten
<1> QED
  BY <1>2, <1>3, <1>4

LEMMA VisitSteps ==
  ASSUME StepsInv, NEW k \in visiting, response_to_client_cp(k),
         Deliver(VisitSent(users_map_main[k])), UNCHANGED page_vars
  PROVE  DistinctIds' /\ \A c \in Sessions : PageSteps(c)'
<1> DEFINE s == users_map_main[k]
<1>0. /\ s \in Sessions /\ player_id[s] = k /\ k \in DOMAIN users_map_main /\ ~broken
      /\ OneLoginInv /\ TypeInv /\ QueueInv /\ EntriesInv
  BY MapTypes, EntryIsOfId DEF StepsInv, ScreenInv, ServiceInv, SystemInv, OneLoginInv,
                               response_to_client_cp
<1>1. UNCHANGED <<conn, player_id, players, gems_eaten>>
  BY DEF response_to_client_cp, Break, net_vars, pss_vars, page_vars, client_vars
<1>2. \A c \in Sessions : inbox'[c] =
        IF conn'[c] = "open" /\ ~broken' THEN inbox[c] \o VisitSent(s)[c] ELSE <<>>
  BY DeliverTypes
<1>3. s \notin Recipients(s)
  BY <1>0, RecipientsOf
<1>4. \A t \in Sessions : Grows(t)
  <2>1. MovementReply(s) \/ UNCHANGED last_relayed
    BY DEF response_to_client_cp, Break, history_vars, RegistrationReply, NothingDue
  <2> QED
    BY <1>0, <1>1, <2>1, RelayedMove, SameGrows
<1>5. ASSUME NEW c \in Sessions PROVE PageSteps(c)'
  <2>1. PageSteps(c) /\ IsSeq(inbox[c])
    BY ScreenNats DEF StepsInv, ScreenInv
  <2>2. CASE conn[c] # "open" \/ broken'
    BY <1>0, <1>1, <1>2, <1>4, <2>1, <2>2, QuietSteps
  <2>3. CASE conn[c] = "open" /\ ~broken'
    <3>1. RegistrationReply(s) \/ MovementReply(s) \/ NothingDue(s)
      BY <2>3 DEF response_to_client_cp, Break
    <3>2. inbox'[c] = inbox[c] \o VisitSent(s)[c]
      BY <1>1, <1>2, <2>3
    <3>3. CASE RegistrationReply(s)
      <4>1. VisitSent(s) = RegistrationSent(s) /\ UNCHANGED last_relayed
        BY <3>3 DEF VisitSent, RegistrationReply, RegistrationDue, MovementDue
      <4> HIDE DEF s
      <4>2. RegistrationReads(s, c, inbox[c], inbox'[c])
        BY <1>0, <1>3, <2>1, <3>2, <4>1, RegistrationRead
      <4>3. ASSUME NEW t \in Sessions, player_id[t] # 0 PROVE StepsOf(c, t)'
        <5>1. StepsOK(inbox[c], players[c], player_id[t], last_relayed[t], gems_eaten[t])
          BY <2>1, <4>3 DEF PageSteps, StepsOf
        <5>2. StepsOK(inbox'[c], players[c], player_id[t], last_relayed[t], gems_eaten[t])
          BY <1>0, <4>2, <5>1, RegistrationSteps, StepTypes
        <5> QED
          BY <1>1, <4>1, <5>2 DEF StepsOf
      <4> QED
        BY <1>1, <4>3 DEF PageSteps
    <3>4. CASE MovementReply(s)
      <4>1. VisitSent(s) = MovementSent(s)
        BY <3>4 DEF VisitSent, MovementReply, RegistrationDue, MovementDue
      <4>2. RelaysNext(s)
        BY <1>0, <1>1, <3>4, RelayedMove
      <4> HIDE DEF s
      <4>3. MovementReads(s, c, inbox[c], inbox'[c])
        BY <1>0, <1>3, <2>1, <3>2, <4>1, MovementRead
      <4>4. ASSUME NEW t \in Sessions, player_id[t] # 0 PROVE StepsOf(c, t)'
        <5>1. StepsOK(inbox[c], players[c], player_id[t], last_relayed[t], gems_eaten[t])
          BY <2>1, <4>4 DEF PageSteps, StepsOf
        <5>2. DistinctIds
          BY DEF StepsInv
        <5>3. StepsOK(inbox'[c], players[c], player_id[t], last_relayed'[t], gems_eaten[t])
          BY <1>0, <1>1, <1>4, <4>2, <4>3, <4>4, <5>1, <5>2, MovementSteps
        <5> QED
          BY <1>1, <5>3 DEF StepsOf
      <4> QED
        BY <1>1, <4>4 DEF PageSteps
    <3>5. CASE NothingDue(s)
      <4>1. VisitSent(s)[c] = <<>>
        BY <3>5 DEF VisitSent, NothingDue, Nothing
      <4>2. inbox'[c] = inbox[c]
        BY <2>1, <3>2, <4>1, SendNothing
      <4> QED
        BY <1>0, <1>1, <1>4, <2>1, <4>2, QuietSteps
    <3> QED
      BY <3>1, <3>3, <3>4, <3>5
  <2> QED
    BY <2>2, <2>3
<1>6. DistinctIds'
  BY <1>1 DEF StepsInv, DistinctIds
<1> QED
  BY <1>5, <1>6

-----------------------------------------------------------------------------
(***************************************************************************)
(* The end of a connection, and the steps at which nothing is sent.        *)
(***************************************************************************)

LEMMA LeaveSteps ==
  ASSUME NEW s \in Sessions, NEW c \in Sessions, NEW q, NEW r, LeaveReads(s, c, q, r),
         NEW P, NEW k, NEW last \in Nat, NEW eaten \in Nat, StepsOK(q, P, k, last, eaten)
  PROVE  StepsOK(r, P, k, last, eaten)
<1>1. CASE c \in Recipients(s)
  <2>1. PICK m : Extends(r, q, m) /\ m.status = LEFT
    BY <1>1 DEF LeaveReads
  <2> QED
    BY <2>1, OtherSteps
<1>2. CASE c \notin Recipients(s)
  BY <1>2 DEF LeaveReads
<1> QED
  BY <1>1, <1>2

\* A page that shows nobody and has nothing to take.
LEMMA NoPageSteps ==
  ASSUME NEW c \in Sessions, inbox'[c] = <<>>, DOMAIN players'[c] = {}
  PROVE  PageSteps(c)'
<1>1. \A i \in 1 .. Len(<<>>) : FALSE
  BY EmptyIsSeq
<1>2. ASSUME NEW t \in Sessions PROVE StepsOf(c, t)'
  <2>1. StepsOK(<<>>, players'[c], player_id'[t], last_relayed'[t], gems_eaten'[t])
    BY <1>1, NoSteps
  <2> QED
    BY <2>1 DEF StepsOf
<1> QED
  BY <1>2 DEF PageSteps

LEMMA ClosesSteps ==
  ASSUME StepsInv, NEW s \in Sessions, Closes(s)
  PROVE  DistinctIds' /\ \A c \in Sessions : PageSteps(c)'
<1>0. TypeInv /\ DOMAIN players = Sessions /\ conn \in [Sessions -> {"new", "open", "closed"}]
  BY MapTypes DEF StepsInv, ScreenInv, SystemInv, OneLoginInv, ScreenOK, ScreenTypes
<1>2. \A c \in Sessions : inbox'[c] =
        IF conn'[c] = "open" /\ ~broken' THEN inbox[c] \o LeaveSent(s)[c] ELSE <<>>
  BY DeliverTypes DEF Closes
<1>3. UNCHANGED <<player_id, last_relayed, gems_eaten>>
  BY DEF Closes, PeerInitiatedClose, Break, pss_vars, client_vars, history_vars
<1>4. \A t \in Sessions : Grows(t)
  BY <1>0, <1>3, SameGrows
<1>5. /\ DOMAIN players'[s] = {}
      /\ \A c \in Sessions \ {s} : players'[c] = players[c]
  BY <1>0 DEF Closes, Page!Gone, Page!NoPlayers
<1>6. conn'[s] # "open" \/ broken'
  BY <1>0 DEF Closes, PeerInitiatedClose, Break
<1>7. PageSteps(s)'
  BY <1>2, <1>5, <1>6, NoPageSteps
<1>8. ASSUME NEW c \in Sessions \ {s} PROVE PageSteps(c)'
  <2>1. PageSteps(c) /\ IsSeq(inbox[c]) /\ players'[c] = players[c]
    BY <1>5, ScreenNats DEF StepsInv, ScreenInv
  <2>2. CASE inbox'[c] = <<>>
    BY <1>0, <1>3, <1>4, <2>1, <2>2, QuietSteps
  <2>3. CASE inbox'[c] = inbox[c] \o LeaveSent(s)[c]
    <3>1. LeaveReads(s, c, inbox[c], inbox'[c])
      BY <2>1, <2>3, LeaveRead
    <3>2. ASSUME NEW t \in Sessions, player_id[t] # 0 PROVE StepsOf(c, t)'
      <4>1. StepsOK(inbox[c], players[c], player_id[t], last_relayed[t], gems_eaten[t])
        BY <2>1, <3>2 DEF PageSteps, StepsOf
      <4>2. StepsOK(inbox'[c], players[c], player_id[t], last_relayed[t], gems_eaten[t])
        BY <1>0, <3>1, <4>1, LeaveSteps, StepTypes
      <4> QED
        BY <1>3, <2>1, <4>2 DEF StepsOf
    <3> QED
      BY <1>3, <3>2 DEF PageSteps
  <2> QED
    BY <1>2, <2>2, <2>3
<1>9. DistinctIds'
  BY <1>3 DEF StepsInv, DistinctIds
<1> QED
  BY <1>7, <1>8, <1>9

LEMMA LosesSteps ==
  ASSUME StepsInv, NEW s \in Sessions, Loses(s)
  PROVE  DistinctIds' /\ \A c \in Sessions : PageSteps(c)'
<1>0. TypeInv
  BY DEF StepsInv, ScreenInv, SystemInv, OneLoginInv
<1>1. \A c \in Sessions : inbox'[c] =
        IF conn'[c] = "open" /\ ~broken' THEN inbox[c] \o Nothing[c] ELSE <<>>
  BY DeliverTypes DEF Loses
<1>2. UNCHANGED <<player_id, last_relayed, gems_eaten, players>>
  BY DEF Loses, ConnectionLost, page_vars, pss_vars, client_vars, history_vars
<1>3. \A t \in Sessions : Grows(t)
  BY <1>0, <1>2, SameGrows
<1>4. ASSUME NEW c \in Sessions PROVE PageSteps(c)'
  <2>1. PageSteps(c) /\ IsSeq(inbox[c])
    BY ScreenNats DEF StepsInv, ScreenInv
  <2>2. inbox'[c] \in {inbox[c], <<>>}
    BY <1>1, <2>1, SendNothing DEF Nothing
  <2> QED
    BY <1>0, <1>2, <1>3, <2>1, <2>2, QuietSteps
<1>5. DistinctIds'
  BY <1>2 DEF StepsInv, DistinctIds
<1> QED
  BY <1>4, <1>5

\* The page that goes on over a new connection shows what it has shown.
LEMMA ReconnectsSteps ==
  ASSUME StepsInv, NEW s \in Sessions, NEW t \in Sessions, Reconnects(s, t)
  PROVE  DistinctIds' /\ \A c \in Sessions : PageSteps(c)'
<1>0. TypeInv /\ DOMAIN players = Sessions
  BY DEF StepsInv, ScreenInv, SystemInv, OneLoginInv, ScreenOK, ScreenTypes
<1>1. /\ conn[s] = "closed" /\ conn[t] = "new"
      /\ UNCHANGED <<inbox, player_id, last_relayed, gems_eaten>>
      /\ players' = [players EXCEPT ![t] = players[s], ![s] = Page!NoPlayers]
  BY DEF Reconnects, Established, Page!Reopens, pss_vars, client_vars, history_vars
<1>2. \A u \in Sessions : Grows(u)
  BY <1>0, <1>1, SameGrows
<1>3. inbox[s] = <<>> /\ inbox[t] = <<>>
  BY <1>1 DEF StepsInv, ScreenInv, SystemInv, PageOK
<1>4. PageSteps(s)'
  <2>1. DOMAIN players'[s] = {}
    BY <1>0, <1>1 DEF Page!NoPlayers
  <2> QED
    BY <1>1, <1>3, <2>1, NoPageSteps
<1>5. PageSteps(t)'
  <2>1. players'[t] = players[s] /\ inbox'[t] = inbox[s]
    BY <1>0, <1>1, <1>3
  <2>2. PageSteps(s)
    BY DEF StepsInv
  <2> QED
    BY <1>1, <2>1, <2>2 DEF PageSteps, StepsOf
<1>6. ASSUME NEW c \in Sessions \ {s, t} PROVE PageSteps(c)'
  <2>1. players'[c] = players[c] /\ PageSteps(c)
    BY <1>0, <1>1 DEF StepsInv
  <2> QED
    BY <1>0, <1>1, <1>2, <2>1, QuietSteps
<1>7. DistinctIds'
  BY <1>1 DEF StepsInv, DistinctIds
<1> QED
  BY <1>4, <1>5, <1>6, <1>7

\* The steps at which the server does nothing that a page could notice.
LEMMA QuietPageSteps ==
  ASSUME StepsInv, UNCHANGED <<player_id, last_relayed, gems_eaten, inbox, players>>
  PROVE  DistinctIds' /\ \A c \in Sessions : PageSteps(c)'
<1>1. TypeInv
  BY DEF StepsInv, ScreenInv, SystemInv, OneLoginInv
<1>2. \A t \in Sessions : Grows(t)
  BY <1>1, SameGrows
<1>3. \A c \in Sessions : PageSteps(c)'
  BY <1>1, <1>2, QuietSteps DEF StepsInv
<1> QED
  BY <1>3 DEF StepsInv, DistinctIds

\* A new player has an id of which nobody has heard.
LEMMA NewPlayerSteps ==
  ASSUME OneLogin, StepsInv, NEW s \in Sessions, Registration(s), Quiet
  PROVE  DistinctIds' /\ \A c \in Sessions : PageSteps(c)'
<1>0. /\ OneLoginInv /\ TypeInv /\ player_id \in [Sessions -> 0 .. clock] /\ clock \in Nat
  BY MapTypes DEF StepsInv, ScreenInv, SystemInv, OneLoginInv
<1>1. /\ player_id' = [player_id EXCEPT ![s] = clock + 1]
      /\ UNCHANGED <<last_relayed, gems_eaten, inbox, players>>
  BY <1>0, RegistrationStep
     DEF Registration, history_vars, client_vars, Quiet, page_vars, OneLoginInv
<1>2. /\ player_id'[s] = clock + 1
      /\ \A t \in Sessions \ {s} : player_id'[t] = player_id[t] /\ player_id[t] # clock + 1
  BY <1>0, <1>1
<1>3. DistinctIds'
  BY <1>2 DEF StepsInv, DistinctIds
<1>4. ASSUME NEW c \in Sessions, NEW t \in Sessions, player_id'[t] # 0 PROVE StepsOf(c, t)'
  <2>1. CASE t = s
    <3>1. clock + 1 \notin DOMAIN players[c] /\ NewsOfIds(inbox[c], clock)
      BY <1>0 DEF StepsInv, ScreenInv, ScreenOK, ScreenTypes, PageInOrder, InboxInOrder
    <3>2. \A i \in 1 .. Len(inbox[c]) : ~MovesOf(inbox[c][i], clock + 1)
      BY <1>0, <3>1 DEF NewsOfIds, IsNews, MovesOf
    <3>3. StepsOK(inbox[c], players[c], clock + 1, last_relayed[t], gems_eaten[t])
      BY <3>1, <3>2, NoSteps
    <3> QED
      BY <1>1, <1>2, <2>1, <3>3 DEF StepsOf
  <2>2. CASE t # s
    BY <1>1, <1>2, <1>4, <2>2 DEF StepsInv, PageSteps, StepsOf
  <2> QED
    BY <2>1, <2>2
<1> QED
  BY <1>3, <1>4 DEF PageSteps

LEMMA ServerQuietSteps ==
  ASSUME OneLogin, StepsInv, Quiet,
         \/ game_loop_cb
         \/ \E s \in Sessions : Established(s) \/ Registration(s) \/ Movement(s)
  PROVE  DistinctIds' /\ \A c \in Sessions : PageSteps(c)'
<1>1. UNCHANGED <<inbox, players>>
  BY DEF Quiet, page_vars
<1>2. CASE game_loop_cb
  BY <1>1, <1>2, QuietPageSteps DEF game_loop_cb, pss_vars, client_vars, history_vars
<1>3. ASSUME NEW s \in Sessions, Established(s) \/ Movement(s)
      PROVE  DistinctIds' /\ \A c \in Sessions : PageSteps(c)'
  <2>1. UNCHANGED <<player_id, last_relayed, gems_eaten>>
    <3>1. CASE Established(s)
      BY <3>1 DEF Established, client_vars, history_vars
    <3>2. CASE Movement(s) /\ Break
      BY <3>2 DEF Break, pss_vars, client_vars, history_vars
    <3>3. CASE Movement(s) /\ ~Break
      BY <3>3 DEF Movement, client_vars, history_vars
    <3> QED
      BY <1>3, <3>1, <3>2, <3>3
  <2> QED
    BY <1>1, <2>1, QuietPageSteps
<1> QED
  BY <1>2, <1>3, NewPlayerSteps

-----------------------------------------------------------------------------
(***************************************************************************)
(* The pages' steps.                                                       *)
(***************************************************************************)

\* What handleServerResponse makes of player k.
TakesOf(s, m, k) ==
  k \in DOMAIN players'[s] =>
    \/ players'[s][k] = Page!NewPlayer
    \/ k \in DOMAIN players[s] /\ players'[s][k] = players[s][k]
    \/ /\ k \in DOMAIN players[s] /\ MovesOf(m, k)
       /\ players'[s][k] = [players[s][k] EXCEPT !.player_x_r = @ \o Page!Steps(m)]

LEMMA ResponseTakes ==
  ASSUME NEW s \in Sessions, DOMAIN players = Sessions, Page!handleServerResponse(s)
  PROVE  \A k : TakesOf(s, Head(inbox[s]), k)
<1> USE DEF Page!Receives, Page!LayerReceives, Page!Response, Page!LOGIN_ACK, Page!MOVE_ACK,
            Page!OTHER_LOGIN, Page!OTHER_MOVE, Page!LEFT, Page!GEM_SCATTER, Page!GEM_ACK
<1> DEFINE m == Head(inbox[s])
           P == players[s]
<1> SUFFICES ASSUME NEW k, k \in DOMAIN players'[s] PROVE TakesOf(s, m, k)
  BY DEF TakesOf
<1>1. CASE UNCHANGED players
  BY <1>1 DEF TakesOf
<1>2. CASE Page!switchToGame(s)
  <2>1. UNCHANGED players \/ players'[s] = Page!PlayersOf(m)
    BY <1>2 DEF Page!switchToGame
  <2>2. players'[s] = Page!PlayersOf(m) => players'[s][k] = Page!NewPlayer
    BY DEF Page!PlayersOf
  <2> QED
    BY <1>1, <2>1, <2>2 DEF TakesOf
<1>3. CASE Page!AddOtherPlayerOnRegister(s)
  <2>1. players'[s] = [j \in DOMAIN P \cup {m.player_id} |->
                         IF j = m.player_id THEN Page!NewPlayer ELSE P[j]]
    BY <1>3 DEF Page!AddOtherPlayerOnRegister
  <2>2. players'[s][k] = IF k = m.player_id THEN Page!NewPlayer ELSE P[k]
    BY <2>1
  <2>3. k # m.player_id => k \in DOMAIN P
    BY <2>1
  <2> QED
    BY <2>2, <2>3 DEF TakesOf
<1>4. CASE Page!updateOtherPlayerOnMovment(s) /\ players' # players
  <2>1. /\ m.status = OTHER_MOVE /\ m.player_id \in DOMAIN P
        /\ players' = [players EXCEPT ![s][m.player_id].player_x_r = @ \o Page!Steps(m)]
    BY <1>4 DEF Page!updateOtherPlayerOnMovment
  <2>2. players'[s] = [P EXCEPT ![m.player_id].player_x_r = @ \o Page!Steps(m)]
    BY <2>1
  <2>3. DOMAIN players'[s] = DOMAIN P
    BY <2>2
  <2>4. CASE k = m.player_id
    <3>1. players'[s][k] = [P[k] EXCEPT !.player_x_r = @ \o Page!Steps(m)]
      BY <2>1, <2>2, <2>4
    <3> QED
      BY <2>1, <2>3, <2>4, <3>1 DEF TakesOf, MovesOf
  <2>5. CASE k # m.player_id
    <3>1. players'[s][k] = P[k]
      BY <2>2, <2>3, <2>5
    <3> QED
      BY <2>3, <3>1 DEF TakesOf
  <2> QED
    BY <2>4, <2>5
<1>5. CASE Page!deletePlayer(s)
  <2>1. players'[s] = Page!Restrict(P, DOMAIN P \ {m.player_id})
    BY <1>5 DEF Page!deletePlayer
  <2>2. k \in DOMAIN P /\ players'[s][k] = P[k]
    BY <2>1 DEF Page!Restrict
  <2> QED
    BY <2>2 DEF TakesOf
<1>6. Page!TakeGems(s) \/ Page!NoLayerYet(s) \/ Page!syncPlayerActions(s) => UNCHANGED players
  BY DEF Page!TakeGems, Page!NoLayerYet, Page!syncPlayerActions, Page!page_vars
<1> QED
  BY <1>1, <1>2, <1>3, <1>4, <1>5, <1>6 DEF Page!handleServerResponse

LEMMA TakesSteps ==
  ASSUME StepsInv, NEW s \in Sessions, Takes(s)
  PROVE  DistinctIds' /\ \A c \in Sessions : PageSteps(c)'
<1>0. TypeInv /\ DOMAIN players = Sessions /\ DOMAIN inbox = Sessions /\ ScreenInv
  BY DEF StepsInv, ScreenInv, SystemInv, OneLoginInv, ScreenOK, ScreenTypes, PageTypes
<1>1. UNCHANGED <<player_id, last_relayed, gems_eaten>>
  BY DEF Takes, vars, pss_vars, client_vars, history_vars
<1>2. ResponseShows(s) /\ \A k : TakesOf(s, Head(inbox[s]), k)
  BY <1>0, ResponseScreen, ResponseTakes DEF Takes
<1> DEFINE q == inbox[s]
           r == Tail(q)
           m == Head(q)
<1>3. Follows(r, q, m) /\ inbox'[s] = r
  <2>1. IsSeq(q) /\ q # <<>>
    BY <1>0, <1>2, ScreenNats DEF ScreenInv, ResponseShows
  <2> QED
    BY <1>0, <1>2, <2>1, TailFollows DEF ResponseShows
<1>4. ASSUME NEW t \in Sessions, player_id[t] # 0 PROVE StepsOf(s, t)'
  <2> DEFINE P == players[s]
             P2 == players'[s]
             k == player_id[t]
             last == last_relayed[t]
             eaten == gems_eaten[t]
  <2>1. StepsOK(q, P, k, last, eaten) /\ last \in Nat /\ eaten \in Nat
    BY <1>0, <1>4, StepTypes DEF StepsInv, PageSteps, StepsOf
  <2>2. k \in DOMAIN P2 =>
          \/ P2[k] = Page!NewPlayer
          \/ k \in DOMAIN P /\ P2[k] = P[k]
          \/ /\ k \in DOMAIN P /\ MovesOf(m, k)
             /\ P2[k] = [P[k] EXCEPT !.player_x_r = @ \o Page!Steps(m)]
    BY <1>2 DEF TakesOf
  <2>3. StepsOK(r, P2, k, last, eaten)
    <3> HIDE DEF q, r, m, P, P2, k, last, eaten
    <3> QED
      BY <1>3, <2>1, <2>2, TakenSteps
  <2> QED
    BY <1>1, <1>3, <2>3 DEF StepsOf
<1>5. ASSUME NEW c \in Sessions \ {s} PROVE PageSteps(c)'
  <2>1. players'[c] = players[c] /\ inbox'[c] = inbox[c]
    BY <1>0, <1>2 DEF ResponseShows
  <2> QED
    BY <1>0, <1>1, <2>1, SameGrows, QuietSteps DEF StepsInv
<1>6. PageSteps(s)'
  BY <1>1, <1>4 DEF PageSteps
<1>7. DistinctIds'
  BY <1>1 DEF StepsInv, DistinctIds
<1> QED
  BY <1>5, <1>6, <1>7

LEMMA FramesSteps ==
  ASSUME StepsInv, NEW s \in Sessions, Page!OthersStep(s), UNCHANGED <<inbox, player_id, last_relayed>>,
         \A t \in Sessions : Grows(t)
  PROVE  DistinctIds' /\ \A c \in Sessions : PageSteps(c)'
<1>0. TypeInv /\ DOMAIN players = Sessions
  BY DEF StepsInv, ScreenInv, SystemInv, OneLoginInv, ScreenOK, ScreenTypes
<1>1. ASSUME NEW t \in Sessions, player_id[t] # 0 PROVE StepsOf(s, t)'
  <2> DEFINE q == inbox[s]
             P == players[s]
             P2 == players'[s]
             k == player_id[t]
             last == last_relayed[t]
             eaten == gems_eaten[t]
             eaten2 == gems_eaten'[t]
  <2>1. /\ StepsOK(q, P, k, last, eaten) /\ last \in Nat /\ eaten \in Nat
        /\ last <= last /\ eaten2 \in Nat /\ eaten <= eaten2
    BY <1>0, <1>1, StepTypes DEF StepsInv, PageSteps, StepsOf, Grows
  <2>2. k \in DOMAIN P2 => k \in DOMAIN P /\ P2[k] = Page!Stepped(P[k])
    BY <1>0 DEF Page!OthersStep
  <2>3. StepsOK(q, P2, k, last, eaten2)
    <3> HIDE DEF q, P, P2, k, last, eaten, eaten2
    <3>1. StepsOK(q, P2, k, last, eaten)
      BY <2>1, <2>2, FrameSteps
    <3> QED
      BY <2>1, <3>1, StepsGrow
  <2> QED
    BY <2>3 DEF StepsOf
<1>2. ASSUME NEW c \in Sessions \ {s} PROVE PageSteps(c)'
  <2>1. players'[c] = players[c]
    BY <1>0 DEF Page!OthersStep
  <2> QED
    BY <1>0, <2>1, QuietSteps DEF StepsInv
<1>3. DistinctIds'
  BY DEF StepsInv, DistinctIds
<1> QED
  BY <1>1, <1>2, <1>3 DEF PageSteps

LEMMA PageStepsQuiet ==
  ASSUME StepsInv, NEW s \in Sessions,
         LogsIn(s) \/ Draws(s) \/ Redials(s) \/ \E hit \in BOOLEAN : Moves(s, hit)
  PROVE  DistinctIds' /\ \A c \in Sessions : PageSteps(c)'
<1>0. TypeInv
  BY DEF StepsInv, ScreenInv, SystemInv, OneLoginInv
<1>1. CASE LogsIn(s)
  BY <1>1, QuietPageSteps
     DEF LogsIn, SendLogin, Receive, Quiet, page_vars, pss_vars, history_vars
<1>2. CASE Draws(s)
  <2>1. UNCHANGED <<inbox, player_id, last_relayed, gems_eaten>> /\ Page!OthersStep(s)
    BY <1>2 DEF Draws, Page!IdleFrame, vars, pss_vars, client_vars, history_vars
  <2>2. \A t \in Sessions : Grows(t)
    BY <1>0, <2>1, SameGrows
  <2> QED
    BY <2>1, <2>2, FramesSteps
<1>3. ASSUME NEW hit \in BOOLEAN, Moves(s, hit)
      PROVE  DistinctIds' /\ \A c \in Sessions : PageSteps(c)'
  <2>1. UNCHANGED <<inbox, player_id, last_relayed>> /\ Page!OthersStep(s)
    <3>1. PICK m : Receive(s, m)
      BY <1>3 DEF Moves
    <3> QED
      BY <1>3, <3>1 DEF Moves, Page!MovingFrame, Receive, pss_vars, history_vars
  <2>2. \/ gems_eaten' = [gems_eaten EXCEPT ![s] = gems_eaten[s] + 1]
        \/ UNCHANGED gems_eaten
    BY <1>3 DEF Moves
  <2>3. \A t \in Sessions : Grows(t)
    BY <1>0, <2>1, <2>2, StepTypes DEF Grows
  <2> QED
    BY <2>1, <2>3, FramesSteps
<1>4. CASE Redials(s)
  <2>1. UNCHANGED <<player_id, last_relayed, gems_eaten>>
    BY <1>4 DEF Redials, vars, pss_vars, client_vars, history_vars
  <2>2. \/ inbox' = inbox /\ UNCHANGED page_vars
        \/ \E hit \in BOOLEAN : Page!MovingFrame(s, hit)
    BY <1>4 DEF Redials, Page!Drops, Page!page_vars, page_vars
  <2>3. CASE inbox' = inbox /\ UNCHANGED page_vars
    BY <2>1, <2>3, QuietPageSteps DEF page_vars
  <2>4. ASSUME NEW hit \in BOOLEAN, Page!MovingFrame(s, hit)
        PROVE  DistinctIds' /\ \A c \in Sessions : PageSteps(c)'
    <3>1. UNCHANGED inbox /\ Page!OthersStep(s)
      BY <2>4 DEF Page!MovingFrame
    <3>2. \A t \in Sessions : Grows(t)
      BY <1>0, <2>1, SameGrows
    <3> QED
      BY <2>1, <3>1, <3>2, FramesSteps
  <2> QED
    BY <2>2, <2>3, <2>4
<1> QED
  BY <1>1, <1>2, <1>3, <1>4

-----------------------------------------------------------------------------
LEMMA NextSteps ==
  ASSUME OneLogin
  PROVE  StepsInv /\ [SystemNext]_system_vars => StepsInv'
<1> SUFFICES ASSUME StepsInv, [SystemNext]_system_vars PROVE StepsInv'
  OBVIOUS
<1>1. ScreenInv'
  BY NextScreen DEF StepsInv
<1>2. CASE UNCHANGED system_vars
  <2>1. UNCHANGED <<player_id, last_relayed, gems_eaten, inbox, players>>
    BY <1>2 DEF system_vars, vars, pss_vars, client_vars, history_vars, page_vars
  <2> QED
    BY <1>1, <2>1, QuietPageSteps DEF StepsInv
<1>3. CASE ServerStep
  <2>1. DistinctIds' /\ \A c \in Sessions : PageSteps(c)'
    BY <1>3, VisitSteps, ServerQuietSteps DEF ServerStep, LoopTick, WriteableStep, Writeable
  <2> QED
    BY <1>1, <2>1 DEF StepsInv
<1>4. ASSUME NEW s \in Sessions, PageStep(s) PROVE StepsInv'
  <2>1. DistinctIds' /\ \A c \in Sessions : PageSteps(c)'
    BY <1>4, PageStepsQuiet, TakesSteps, ClosesSteps, LosesSteps, ReconnectsSteps
       DEF PageStep
  <2> QED
    BY <1>1, <2>1 DEF StepsInv
<1> QED
  BY <1>2, <1>3, <1>4 DEF SystemNext

LEMMA InitSteps == SystemInit => StepsInv
BY InitScreen DEF SystemInit, Init, StepsInv, DistinctIds, PageSteps

LEMMA StepsInvariant == ASSUME OneLogin PROVE SystemSpec => []StepsInv
BY InitSteps, NextSteps, PTL DEF SystemSpec

\* Another player makes its steps on every page in the order in which its own page
\* made them, none of them twice, and loses its position only to a gem it has run
\* into: whatever is under way, late or thrown away before the page is in the game.
THEOREM StepsAreInOrder == ASSUME OneLogin PROVE SystemSpec => []StepsInOrder
<1>1. ASSUME StepsInv, NEW s \in Sessions, NEW t \in Sessions,
             player_id[t] \in DOMAIN players[s]
      PROVE  LET p == players[s][player_id[t]]
                 steps == <<p.x>> \o p.player_x_r
             IN /\ \A i, j \in 1 .. Len(steps) :
                     i < j /\ steps[i] > 0 /\ steps[j] > 0 => steps[i] < steps[j]
                /\ p.x = Page!NaN \/ (\E i \in 1 .. Len(p.player_x_r) :
                     p.player_x_r[i] = Page!Undefined) => gems_eaten[t] > 0
  <2> DEFINE p == players[s][player_id[t]]
             u == p.player_x_r
             steps == <<p.x>> \o u
  <2>1. PlayerInOrder(p, last_relayed[t], gems_eaten[t])
    <3>1. player_id[t] # 0
      BY <1>1, ScreenNats DEF StepsInv, ScreenInv, ScreenOK, ScreenTypes
    <3> QED
      BY <1>1, <3>1 DEF StepsInv, PageSteps, StepsOf, StepsOK
  <2>2. p \in [player_x_r : Seq(Nat), x : Int] /\ u \in Seq(Nat) /\ p.x \in Int /\ Len(u) \in Nat
    BY <2>1 DEF PlayerInOrder
  <2>3. StepOn(p, 0) = p.x /\ \A i \in Nat \ {0} : StepOn(p, i) = u[i]
    BY DEF StepOn
  <2>4. /\ \A i \in 0 .. Len(u) :
             (IF i = 0 THEN StepOn(p, i) < 0 ELSE StepOn(p, i) = 0) => gems_eaten[t] > 0
        /\ \A i \in 0 .. Len(u) : \A j \in 0 .. i - 1 :
             StepOn(p, j) > 0 /\ StepOn(p, i) > 0 => StepOn(p, j) < StepOn(p, i)
    BY <2>1 DEF PlayerInOrder
  <2>5. Len(steps) = Len(u) + 1 /\ \A i \in 1 .. Len(steps) : steps[i] = StepOn(p, i - 1)
    <3> DEFINE one == <<p.x>>
    <3>1. one \in Seq(Int) /\ Len(one) = 1 /\ one[1] = p.x /\ u \in Seq(Int)
      BY <2>2
    <3> HIDE DEF one, p, u
    <3> DEFINE w == one \o u
    <3>4. /\ Len(w) = Len(one) + Len(u)
          /\ \A i \in 1 .. Len(one) + Len(u) :
               w[i] = IF i <= Len(one) THEN one[i] ELSE u[i - Len(one)]
      BY <3>1, ConcatProperties
    <3> HIDE DEF w
    <3>2. /\ Len(w) = Len(u) + 1
          /\ \A i \in 1 .. Len(u) + 1 : w[i] = IF i <= 1 THEN one[i] ELSE u[i - 1]
      BY <2>2, <3>1, <3>4
    <3>3. ASSUME NEW i \in 1 .. Len(u) + 1 PROVE w[i] = StepOn(p, i - 1)
      <4>1. CASE i = 1
        BY <2>2, <2>3, <3>1, <3>2, <4>1
      <4>2. CASE i # 1
        <5>1. ~(i <= 1) /\ i - 1 \in Nat \ {0}
          BY <2>2, <4>2
        <5> QED
          BY <2>3, <3>2, <5>1
      <4> QED
        BY <4>1, <4>2
    <3> QED
      BY <3>2, <3>3 DEF w, one
  <2> HIDE DEF p, u, steps
  <2>6. ASSUME NEW i \in 1 .. Len(steps), NEW j \in 1 .. Len(steps), i < j,
               steps[i] > 0, steps[j] > 0
        PROVE  steps[i] < steps[j]
    <3>1. i - 1 \in 0 .. (j - 1) - 1 /\ j - 1 \in 0 .. Len(u)
      BY <2>2, <2>5, <2>6
    <3> QED
      BY <2>4, <2>5, <2>6, <3>1
  <2>7. ASSUME p.x = Page!NaN \/ \E i \in 1 .. Len(u) : u[i] = Page!Undefined
        PROVE  gems_eaten[t] > 0
    <3>1. CASE p.x = Page!NaN
      <4>1. 0 \in 0 .. Len(u) /\ StepOn(p, 0) < 0
        BY <2>2, <2>3, <3>1 DEF Page!NaN
      <4> QED
        BY <2>4, <4>1
    <3>2. ASSUME NEW i \in 1 .. Len(u), u[i] = Page!Undefined PROVE gems_eaten[t] > 0
      <4>1. i \in 0 .. Len(u) /\ i \in Nat \ {0}
        BY <2>2
      <4>2. StepOn(p, i) = 0
        BY <2>3, <3>2, <4>1 DEF Page!Undefined
      <4> QED
        BY <2>4, <4>1, <4>2
    <3> QED
      BY <2>7, <3>1, <3>2
  <2> QED
    BY <2>6, <2>7 DEF p, u, steps
<1>2. StepsInv => StepsInOrder
  BY <1>1 DEF StepsInOrder
<1> QED
  BY <1>2, StepsInvariant, PTL

=============================================================================
