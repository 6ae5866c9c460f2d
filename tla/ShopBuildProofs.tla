---------------------------- MODULE ShopBuildProofs ----------------------------
(***************************************************************************)
(* The invariants of ShopBuild, for any cores, items, bundles and limits:  *)
(* sessions, builds and losses of cores in any number and order.           *)
(***************************************************************************)
EXTENDS ShopBuild, DataLemmas

Session == [core : Cores, desc : Nat]
Stock == {S \in SUBSET Items : S # {}}

PendRecords == {NoPend} \cup [items : Stock, desc : Nat, bundle : Nat, left : BOOLEAN]
ShopRecords == {NoShop} \cup [items : Stock, host : Cores, owner : Session \cup {Away}]

OutMsgs ==
    [op : {"ITEM_SAVE"}, item : Items \cup {Bundle}, who : {"owner", "other"}, count : Nat]
    \cup [op : {"ITEM_DESTROY"}, item : {Bundle}]
    \cup [op : {"CREATE"}, desc : Nat, items : Stock]
    \cup [op : {"LOGOUT"}, desc : Nat]
    \cup [op : {"ACCOUNT_LOGOUT"}]
InMsgs ==
    [op : {"PLAYER_LOAD"}, desc : Nat, items : SUBSET Items, bundles : Nat]
    \cup [op : {"LOAD"}, desc : Nat]
    \cup [op : {"CREATE_RESULT"}, ok : BOOLEAN]

ClientTypes ==
    /\ here \in Session \cup {Away} /\ panel \in BOOLEAN /\ stack \in Nat
    /\ bag \subseteq Items /\ locked \subseteq Items /\ skip \subseteq Items /\ dirty \subseteq Items \cup {Bundle}
CoreTypes ==
    /\ pend \in [Cores -> PendRecords]
    /\ stall \in [Cores -> (SUBSET Items) \cup {NoStall}] /\ up \subseteq peers /\ peers \subseteq Cores
DatabaseTypes ==
    /\ row \in [Items -> {"owner", "other", "none"}] /\ bundleRow \in Nat
    /\ shop \in ShopRecords
    /\ loads \in Seq(Session) /\ playing \in Cores \cup {NoCore} /\ last \in Nat
MailTypes ==
    /\ out \in [Cores -> Seq(OutMsgs)] /\ in \in [Cores -> Seq(InMsgs)]
    /\ \A c \in Cores \ up : in[c] = <<>> /\ pend[c] = NoPend
BuildTypeOK == ClientTypes /\ CoreTypes /\ DatabaseTypes /\ MailTypes

-----------------------------------------------------------------------------
Sent(c) == Range(out[c])
Coming(c) == Range(in[c])

\* What only the session that plays sends: its items, its build, its end.
Own(m) == m.op \in {"CREATE", "ACCOUNT_LOGOUT"} \/ (m.op = "ITEM_SAVE" /\ m.item # Bundle)

\* What may be on a connection after what: nothing of a session after its end, no save
\* of an item after the build that takes it, no answer after the load of a later session.
MayFollow(m, w) ==
    /\ m.op = "ACCOUNT_LOGOUT" => ~Own(w)
    /\ m.op = "CREATE" => w.op # "CREATE" /\ ~(w.op = "ITEM_SAVE" /\ w.item \in m.items)
MayAnswer(m, w) ==
    /\ m.op = "PLAYER_LOAD" => w.op \notin {"PLAYER_LOAD", "CREATE_RESULT"}
    /\ m.op = "CREATE_RESULT" => w.op # "CREATE_RESULT"
    /\ m.op = "LOAD" /\ w.op = "PLAYER_LOAD" => m.desc # w.desc
OutOrder == \A c \in Cores : \A p \in Before(out[c]) : MayFollow(p[1], p[2])
InOrder == \A c \in Cores : \A p \in Before(in[c]) : MayAnswer(p[1], p[2])

Accepts(c) == \E m \in Coming(c) : m.op = "CREATE_RESULT" /\ m.ok
LoadComes(c, d) == \E m \in Coming(c) : m.op = "LOAD" /\ m.desc = d
LogsOut(c, d) == \E m \in Sent(c) : m.op = "LOGOUT" /\ m.desc = d
Hears(c, d) == LoadComes(c, d) \/ (pend[c].desc = d /\ Accepts(c))
IsHere(c, d) == here.core = c /\ here.desc = d

\* The session that plays is the one the DB process believes in; its build is the
\* pending one; what the shop has of it already is about to be told.
HereInv ==
    /\ here # Away =>
         /\ playing = here.core /\ here.core \in up /\ here.desc \in 1 .. last
         /\ Pending(here.core) => pend[here.core].desc = here.desc /\ ~pend[here.core].left
    /\ here = Away => bag = {} /\ locked = {} /\ skip = {} /\ dirty = {} /\ ~panel
    /\ dirty \cap skip = {} /\ dirty \subseteq bag \cup {Bundle}
    /\ bag \cap shop.items # {} => Accepts(here.core)
    /\ panel => Exists

\* A pending build has its request or its answer under way.
CoreOK(c) ==
    /\ Pending(c) =>
         /\ c \in up /\ pend[c].desc \in 1 .. last
         /\ \/ \E m \in Sent(c) : m.op = "CREATE"
            \/ \E m \in Coming(c) : m.op = "CREATE_RESULT"
    /\ c \in up => stall[c] = IF Pending(c) THEN {} ELSE IF shop.host = c THEN shop.items ELSE NoStall
CoreInv == \A c \in Cores : CoreOK(c)

OutOK(c, m) ==
    /\ Own(m) => playing = c
    /\ m.op = "ACCOUNT_LOGOUT" => here = Away
    /\ m.op = "ITEM_SAVE" => m.item \notin shop.items
    /\ m.op = "LOGOUT" => /\ m.desc \in 1 .. last /\ ~IsHere(c, m.desc)
                          /\ \A w \in Coming(c) : w.op = "PLAYER_LOAD" => w.desc # m.desc
    /\ m.op = "CREATE" => /\ shop.host # c
                          /\ c \in up => /\ pend[c].items = m.items /\ pend[c].desc = m.desc
                                         /\ \A w \in Coming(c) : w.op # "CREATE_RESULT"
OutInv == \A c \in Cores : \A m \in Sent(c) : OutOK(c, m)

\* A session that is about to play finds the rows as they are, and is bound already,
\* or will be by the last query under way.
InOK(c, m) ==
    /\ m.op = "PLAYER_LOAD" =>
         /\ playing = c /\ here = Away /\ m.items \cap shop.items = {} /\ m.desc \in 1 .. last
         /\ pend[c].desc < m.desc /\ \A w \in Sent(c) : ~Own(w)
         /\ loads # <<>> => Last(loads) = [core |-> c, desc |-> m.desc]
         /\ Exists /\ loads = <<>> => shop.owner = [core |-> c, desc |-> m.desc] /\ LoadComes(c, m.desc)
    /\ m.op = "LOAD" => Exists /\ m.desc \in 1 .. last
    /\ m.op = "CREATE_RESULT" =>
         /\ Pending(c) /\ Exists
         /\ m.ok => shop.host = c /\ shop.items = pend[c].items
         /\ ~m.ok => shop.host # c
InInv == \A c \in Cores : \A m \in Coming(c) : InOK(c, m)

\* The connection to which the shop is bound knows of it, or says it is over.
BindInv ==
    /\ shop.owner.core \in up =>
         \/ here = shop.owner /\ panel
         \/ LogsOut(shop.owner.core, shop.owner.desc)
         \/ Hears(shop.owner.core, shop.owner.desc)
    /\ \A n \in 1 .. Len(loads) : loads[n].desc \in 1 .. last
    /\ here # Away =>
         /\ loads # <<>> => Last(loads) = here
         /\ Exists /\ loads = <<>> => shop.owner = here /\ (panel \/ Hears(here.core, here.desc))

BuildInv ==
    /\ BuildTypeOK /\ OnePlace /\ HeldWhilePending
    /\ OutOrder /\ InOrder /\ HereInv /\ CoreInv /\ OutInv /\ InInv /\ BindInv

-----------------------------------------------------------------------------
\* The operators of the model.

LEMMA SessionIs == \A s \in Session : s = [core |-> s.core, desc |-> s.desc] /\ s.core \in Cores /\ s.desc \in Nat
BY DEF Session

LEMMA HereIs ==
    ASSUME ClientTypes
    PROVE  /\ here # Away <=> here \in Session
           /\ here # Away <=> here.core \in Cores
           /\ here = Away <=> here.core = NoCore
           /\ \A c \in Cores : \A d : here = [core |-> c, desc |-> d] <=> IsHere(c, d)
<1>1. Away.core = NoCore /\ Away.desc = 0
  BY DEF Away
<1>2. \A s \in Session : s.core # NoCore
  BY SessionIs, BuildAssumption
<1>3. here \in Session <=> here # Away
  BY <1>1, <1>2 DEF ClientTypes
<1>4. ASSUME NEW c \in Cores, NEW d PROVE here = [core |-> c, desc |-> d] <=> IsHere(c, d)
  <2>1. CASE here \in Session
    BY <2>1, SessionIs DEF IsHere
  <2>2. CASE here = Away
    BY <1>1, <2>2, BuildAssumption DEF IsHere
  <2>. QED BY <2>1, <2>2, <1>3
<1>. QED BY <1>1, <1>2, <1>3, <1>4, SessionIs, BuildAssumption

LEMMA PendValue ==
    ASSUME NEW r \in PendRecords
    PROVE  /\ r # NoPend <=> r.items # {}
           /\ r.items \subseteq Items /\ r.desc \in Nat /\ r.bundle \in Nat
           /\ r = NoPend => r.desc = 0
<1>1. NoPend.items = {} /\ NoPend.desc = 0 /\ NoPend.bundle = 0
  BY DEF NoPend
<1>2. CASE r = NoPend
  <2>1. r.items = {} /\ r.desc = 0 /\ r.bundle = 0
    BY <1>1, <1>2, Zenon
  <2>. QED BY <1>2, <2>1
<1>3. CASE r # NoPend
  <2>1. r \in [items : Stock, desc : Nat, bundle : Nat, left : BOOLEAN]
    BY <1>3 DEF PendRecords
  <2>. QED BY <1>3, <2>1 DEF Stock
<1>. QED BY <1>2, <1>3

LEMMA PendIs ==
    ASSUME CoreTypes, NEW c \in Cores
    PROVE  /\ pend[c] \in PendRecords /\ Pending(c) <=> pend[c].items # {}
           /\ pend[c].items \subseteq Items /\ pend[c].desc \in Nat /\ pend[c].bundle \in Nat
           /\ ~Pending(c) => pend[c].desc = 0
<1>1. pend[c] \in PendRecords
  BY DEF CoreTypes
<1>. QED BY <1>1, PendValue DEF Pending

LEMMA ShopValue ==
    ASSUME NEW r \in ShopRecords
    PROVE  /\ r # NoShop <=> r.items # {}
           /\ r # NoShop <=> r.host \in Cores
           /\ r.items \subseteq Items /\ r.owner \in Session \cup {Away}
           /\ r = NoShop => r.owner = Away /\ r.host = NoCore
           /\ r.owner.core \in Cores <=> r.owner \in Session
<1>1. NoShop.items = {} /\ NoShop.host = NoCore /\ NoShop.owner = Away /\ Away.core = NoCore
  BY DEF NoShop, Away
<1>2. CASE r = NoShop
  <2>1. r.items = {} /\ r.host = NoCore /\ r.owner = Away /\ r.owner.core = NoCore
    BY <1>1, <1>2, Zenon
  <2>. QED BY <1>2, <2>1, SessionIs, BuildAssumption
<1>3. CASE r # NoShop
  <2>1. r \in [items : Stock, host : Cores, owner : Session \cup {Away}]
    BY <1>3 DEF ShopRecords
  <2>. QED BY <1>1, <1>3, <2>1, SessionIs, BuildAssumption DEF Stock
<1>. QED BY <1>2, <1>3

LEMMA ShopIs ==
    ASSUME DatabaseTypes
    PROVE  /\ shop \in ShopRecords
           /\ Exists <=> shop.items # {}
           /\ Exists <=> shop.host \in Cores
           /\ shop.items \subseteq Items /\ shop.owner \in Session \cup {Away}
           /\ ~Exists => shop.owner = Away /\ shop.host = NoCore
           /\ shop.owner.core \in Cores <=> shop.owner \in Session
<1>1. shop \in ShopRecords
  BY DEF DatabaseTypes
<1>. QED BY <1>1, ShopValue DEF Exists

LEMMA OutFields ==
    \A m \in OutMsgs :
        /\ m.op \in {"ITEM_SAVE", "ITEM_DESTROY", "CREATE", "LOGOUT", "ACCOUNT_LOGOUT"}
        /\ m.op = "ITEM_SAVE" => m.item \in Items \cup {Bundle} /\ m.who \in {"owner", "other"} /\ m.count \in Nat
        /\ m.op = "ITEM_DESTROY" => m.item = Bundle
        /\ m.op = "CREATE" => m.desc \in Nat /\ m.items \subseteq Items /\ m.items # {}
        /\ m.op = "LOGOUT" => m.desc \in Nat
<1> TAKE m \in OutMsgs
<1>1. CASE m \in [op : {"ITEM_SAVE"}, item : Items \cup {Bundle}, who : {"owner", "other"}, count : Nat]
  BY <1>1
<1>2. CASE m \in [op : {"ITEM_DESTROY"}, item : {Bundle}]
  BY <1>2
<1>3. CASE m \in [op : {"CREATE"}, desc : Nat, items : Stock]
  BY <1>3 DEF Stock
<1>4. CASE m \in [op : {"LOGOUT"}, desc : Nat]
  BY <1>4
<1>5. CASE m \in [op : {"ACCOUNT_LOGOUT"}]
  BY <1>5
<1>. QED BY <1>1, <1>2, <1>3, <1>4, <1>5 DEF OutMsgs

LEMMA InFields ==
    \A m \in InMsgs :
        /\ m.op \in {"PLAYER_LOAD", "LOAD", "CREATE_RESULT"}
        /\ m.op = "PLAYER_LOAD" => m.desc \in Nat /\ m.items \subseteq Items /\ m.bundles \in Nat
        /\ m.op = "LOAD" => m.desc \in Nat
        /\ m.op = "CREATE_RESULT" => m.ok \in BOOLEAN
BY DEF InMsgs

-----------------------------------------------------------------------------
\* The connections.

LEMMA SendIs ==
    ASSUME MailTypes, NEW c \in Cores, NEW ms \in Seq(OutMsgs), Send(c, ms)
    PROVE  /\ out' \in [Cores -> Seq(OutMsgs)] /\ \A d \in Cores : d # c => out'[d] = out[d]
           /\ Range(out'[c]) = Range(out[c]) \cup Range(ms)
           /\ Before(out'[c]) \subseteq Before(out[c]) \cup Before(ms) \cup (Range(out[c]) \X Range(ms))
<1>1. out[c] \in Seq(OutMsgs) /\ out \in [Cores -> Seq(OutMsgs)]
  BY DEF MailTypes
<1>2. out' = [out EXCEPT ![c] = out[c] \o ms]
  BY DEF Send
<1>3. /\ out[c] \o ms \in Seq(OutMsgs) /\ Range(out[c] \o ms) = Range(out[c]) \cup Range(ms)
      /\ Before(out[c] \o ms) \subseteq Before(out[c]) \cup Before(ms) \cup (Range(out[c]) \X Range(ms))
  BY <1>1, QueueCat
<1>4. out'[c] = out[c] \o ms
  BY <1>1, <1>2
<1>5. out' \in [Cores -> Seq(OutMsgs)] /\ \A d \in Cores : d # c => out'[d] = out[d]
  BY <1>1, <1>2, <1>3
<1>. QED BY <1>3, <1>4, <1>5

LEMMA TellIs ==
    ASSUME MailTypes, NEW c \in Cores, NEW m \in InMsgs, Tell(c, m)
    PROVE  /\ in' \in [Cores -> Seq(InMsgs)] /\ \A d \in Cores : d # c \/ c \notin up => in'[d] = in[d]
           /\ c \in up => /\ Range(in'[c]) = Range(in[c]) \cup {m}
                          /\ Before(in'[c]) \subseteq Before(in[c]) \cup (Range(in[c]) \X {m})
<1>1. in[c] \in Seq(InMsgs) /\ in \in [Cores -> Seq(InMsgs)]
  BY DEF MailTypes
<1>2. CASE c \in up
  <2>1. in' = [in EXCEPT ![c] = Append(in[c], m)]
    BY <1>2 DEF Tell
  <2>2. /\ Append(in[c], m) \in Seq(InMsgs) /\ Range(Append(in[c], m)) = Range(in[c]) \cup {m}
        /\ Before(Append(in[c], m)) \subseteq Before(in[c]) \cup (Range(in[c]) \X {m})
    BY <1>1, QueueAppend
  <2>3. in'[c] = Append(in[c], m)
    BY <1>1, <2>1
  <2>4. in' \in [Cores -> Seq(InMsgs)] /\ \A d \in Cores : d # c => in'[d] = in[d]
    BY <1>1, <2>1, <2>2
  <2>. QED BY <1>2, <2>2, <2>3, <2>4
<1>3. CASE c \notin up
  BY <1>1, <1>3 DEF Tell
<1>. QED BY <1>2, <1>3

LEMMA TakenIs ==
    ASSUME MailTypes, NEW c \in Cores, out[c] # <<>>, out' = [out EXCEPT ![c] = Tail(@)]
    PROVE  /\ out' \in [Cores -> Seq(OutMsgs)] /\ \A d \in Cores : d # c => out'[d] = out[d]
           /\ Head(out[c]) \in OutMsgs /\ Range(out[c]) = {Head(out[c])} \cup Range(out'[c])
           /\ Before(out'[c]) \subseteq Before(out[c])
           /\ \A w \in Range(out'[c]) : <<Head(out[c]), w>> \in Before(out[c])
<1>1. out[c] \in Seq(OutMsgs) /\ out \in [Cores -> Seq(OutMsgs)]
  BY DEF MailTypes
<1>2. /\ Tail(out[c]) \in Seq(OutMsgs) /\ Head(out[c]) \in OutMsgs
      /\ Range(out[c]) = {Head(out[c])} \cup Range(Tail(out[c]))
      /\ Before(Tail(out[c])) \subseteq Before(out[c])
      /\ \A w \in Range(Tail(out[c])) : <<Head(out[c]), w>> \in Before(out[c])
  BY <1>1, QueueTail
<1>3. out'[c] = Tail(out[c])
  BY <1>1
<1>4. out' \in [Cores -> Seq(OutMsgs)] /\ \A d \in Cores : d # c => out'[d] = out[d]
  BY <1>1, <1>2
<1>. QED BY <1>2, <1>3, <1>4

LEMMA ReadIs ==
    ASSUME MailTypes, NEW c \in Cores, in[c] # <<>>, in' = [in EXCEPT ![c] = Tail(@)]
    PROVE  /\ in' \in [Cores -> Seq(InMsgs)] /\ \A d \in Cores : d # c => in'[d] = in[d]
           /\ Head(in[c]) \in InMsgs /\ Range(in[c]) = {Head(in[c])} \cup Range(in'[c])
           /\ Before(in'[c]) \subseteq Before(in[c])
           /\ \A w \in Range(in'[c]) : <<Head(in[c]), w>> \in Before(in[c])
<1>1. in[c] \in Seq(InMsgs) /\ in \in [Cores -> Seq(InMsgs)]
  BY DEF MailTypes
<1>2. /\ Tail(in[c]) \in Seq(InMsgs) /\ Head(in[c]) \in InMsgs
      /\ Range(in[c]) = {Head(in[c])} \cup Range(Tail(in[c]))
      /\ Before(Tail(in[c])) \subseteq Before(in[c])
      /\ \A w \in Range(Tail(in[c])) : <<Head(in[c]), w>> \in Before(in[c])
  BY <1>1, QueueTail
<1>3. in'[c] = Tail(in[c])
  BY <1>1
<1>4. in' \in [Cores -> Seq(InMsgs)] /\ \A d \in Cores : d # c => in'[d] = in[d]
  BY <1>1, <1>2
<1>. QED BY <1>2, <1>3, <1>4

\* Messages keep their order as long as what is sent may follow what is there.
LEMMA SendInOrder ==
    ASSUME MailTypes, OutOrder, NEW c \in Cores, NEW ms \in Seq(OutMsgs), Send(c, ms),
           \A m \in Sent(c), w \in Range(ms) : MayFollow(m, w),
           \A p \in Before(ms) : MayFollow(p[1], p[2])
    PROVE  OutOrder'
<1> SUFFICES ASSUME NEW d \in Cores, NEW p \in Before(out'[d]) PROVE MayFollow(p[1], p[2])
  BY DEF OutOrder
<1>1. CASE p \in Before(out[d])
  BY <1>1 DEF OutOrder
<1>2. CASE d = c /\ p \in Before(ms)
  BY <1>2
<1>3. CASE d = c /\ p \in Range(out[c]) \X Range(ms)
  BY <1>3 DEF Sent
<1>. QED BY <1>1, <1>2, <1>3, SendIs

LEMMA TellInOrder ==
    ASSUME MailTypes, InOrder, NEW c \in Cores, NEW m \in InMsgs, Tell(c, m),
           \A w \in Coming(c) : MayAnswer(w, m)
    PROVE  InOrder'
<1> SUFFICES ASSUME NEW d \in Cores, NEW p \in Before(in'[d]) PROVE MayAnswer(p[1], p[2])
  BY DEF InOrder
<1>1. CASE p \in Before(in[d])
  BY <1>1 DEF InOrder
<1>2. CASE d = c /\ p \in Range(in[c]) \X {m}
  BY <1>2 DEF Coming
<1>. QED BY <1>1, <1>2, TellIs

LEMMA TakenInOrder ==
    ASSUME MailTypes, OutOrder, NEW c \in Cores, out[c] # <<>>, out' = [out EXCEPT ![c] = Tail(@)]
    PROVE  OutOrder' /\ \A w \in Range(out'[c]) : MayFollow(Head(out[c]), w)
<1>1. \A d \in Cores : Before(out'[d]) \subseteq Before(out[d])
  BY TakenIs
<1>2. OutOrder'
  BY <1>1 DEF OutOrder
<1>3. ASSUME NEW w \in Range(out'[c]) PROVE MayFollow(Head(out[c]), w)
  <2> DEFINE p == <<Head(out[c]), w>>
  <2>1. p \in Before(out[c]) /\ p[1] = Head(out[c]) /\ p[2] = w
    BY TakenIs
  <2> HIDE DEF p
  <2>2. MayFollow(p[1], p[2])
    BY <2>1 DEF OutOrder
  <2>. QED BY <2>1, <2>2
<1>. QED BY <1>2, <1>3

LEMMA ReadInOrder ==
    ASSUME MailTypes, InOrder, NEW c \in Cores, in[c] # <<>>, in' = [in EXCEPT ![c] = Tail(@)]
    PROVE  InOrder' /\ \A w \in Range(in'[c]) : MayAnswer(Head(in[c]), w)
<1>1. \A d \in Cores : Before(in'[d]) \subseteq Before(in[d])
  BY ReadIs
<1>2. InOrder'
  BY <1>1 DEF InOrder
<1>3. ASSUME NEW w \in Range(in'[c]) PROVE MayAnswer(Head(in[c]), w)
  <2> DEFINE p == <<Head(in[c]), w>>
  <2>1. p \in Before(in[c]) /\ p[1] = Head(in[c]) /\ p[2] = w
    BY ReadIs
  <2> HIDE DEF p
  <2>2. MayAnswer(p[1], p[2])
    BY <2>1 DEF InOrder
  <2>. QED BY <2>1, <2>2
<1>. QED BY <1>2, <1>3

LEMMA SavesAre ==
    ASSUME BuildTypeOK, NEW xs, xs \subseteq Items \cup {Bundle}
    PROVE  /\ Saves(xs) \in Seq(OutMsgs)
           /\ \A m \in Range(Saves(xs)) : m.op = "ITEM_SAVE" /\ m.item \in xs
           /\ \A p \in Before(Saves(xs)) : p[1].op = "ITEM_SAVE"
<1> DEFINE f == [x \in xs |-> SaveOf(x)]
           S == {SaveOf(x) : x \in xs}
<1>1. \A x \in xs : SaveOf(x) \in OutMsgs /\ SaveOf(x).op = "ITEM_SAVE" /\ SaveOf(x).item = x
  BY DEF SaveOf, OutMsgs, BuildTypeOK, ClientTypes
<1>2. IsFiniteSet(Items \cup {Bundle})
  BY BuildAssumption, FS_AddElement
<1>3. IsFiniteSet(xs)
  BY <1>2, FS_Subset
<1>4. f \in Surjection(xs, S)
  BY DEF Surjection
<1> HIDE DEF f
<1>5. IsFiniteSet(S)
  BY <1>3, <1>4, FS_Surjection
<1>6. S \subseteq OutMsgs /\ \A m \in S : m.op = "ITEM_SAVE" /\ m.item \in xs
  BY <1>1
<1> HIDE DEF S
<1>7. SetToSeq(S) \in Seq(OutMsgs) /\ Range(SetToSeq(S)) = S
  BY <1>5, <1>6, QueueOfSet
<1>8. \A p \in Before(SetToSeq(S)) : p[1] \in Range(SetToSeq(S))
  BY <1>7, BeforeIs, RangeIs
<1>. QED BY <1>6, <1>7, <1>8 DEF S, Saves

-----------------------------------------------------------------------------
\* What is locked is what the pending build of the session has.
LEMMA LockedIs ==
    ASSUME BuildInv, here # Away
    PROVE  /\ here.core \in Cores /\ here \in Session
           /\ locked = skip /\ locked = pend[here.core].items
           /\ \A m \in Sent(here.core) : m.op # "ACCOUNT_LOGOUT" /\ (m.op = "CREATE" => m.items = locked)
<1>1. here.core \in Cores /\ here \in Session /\ here.desc > 0
  BY HereIs DEF BuildInv, BuildTypeOK, HereInv
<1>2. pend[here.core].desc = here.desc <=> Pending(here.core)
  BY <1>1, PendIs DEF BuildInv, BuildTypeOK, HereInv
<1>3. locked = skip /\ locked = pend[here.core].items
  BY <1>1, <1>2, PendIs DEF BuildInv, BuildTypeOK, HeldWhilePending
<1>4. \A m \in Sent(here.core) : OutOK(here.core, m) /\ here.core \in up
  BY <1>1 DEF BuildInv, OutInv, HereInv
<1>. QED BY <1>1, <1>3, <1>4 DEF OutOK

\* The owner's items are saved, changed and given away.
LEMMA ClientSends ==
    ASSUME BuildInv, NEW c \in Cores, here.core = c, NEW ms \in Seq(OutMsgs), Send(c, ms),
           \A w \in Range(ms) : w.op = "ITEM_SAVE" /\ w.item \notin locked /\ w.item \notin shop.items,
           bag' \subseteq bag, dirty' \subseteq bag' \cup {Bundle}, dirty' \cap skip = {},
           UNCHANGED <<here, locked, skip, stack, panel, core, database, in>>
    PROVE  BuildInv'
<1>1. /\ BuildTypeOK /\ ClientTypes /\ CoreTypes /\ DatabaseTypes /\ MailTypes
      /\ OutOrder /\ InOrder /\ HereInv /\ CoreInv /\ OutInv /\ InInv /\ BindInv
  BY DEF BuildInv, BuildTypeOK
<1>2. here # Away /\ locked = skip /\ locked = pend[c].items
  BY <1>1, HereIs, LockedIs
<1>3. /\ out' \in [Cores -> Seq(OutMsgs)] /\ \A d \in Cores : d # c => Sent(d)' = Sent(d)
      /\ Sent(c)' = Sent(c) \cup Range(ms)
  BY <1>1, <1>2, SendIs DEF Sent
<1>4. \A m \in Sent(c) : m.op # "ACCOUNT_LOGOUT" /\ (m.op = "CREATE" => m.items = locked)
  BY <1>2, LockedIs
<1>5. BuildTypeOK'
  BY <1>1, <1>3 DEF BuildTypeOK, ClientTypes, CoreTypes, DatabaseTypes, MailTypes, core, database
<1>6. OnePlace' /\ HeldWhilePending'
  BY DEF BuildInv, OnePlace, HeldWhilePending, core, database
<1>7. OutOrder'
  <2>1. \A m \in Sent(c), w \in Range(ms) : MayFollow(m, w)
    BY <1>4 DEF MayFollow
  <2>2. \A p \in Before(ms) : p[1] \in Range(ms)
    BY BeforeIs, RangeIs
  <2>3. \A p \in Before(ms) : MayFollow(p[1], p[2])
    BY <2>2 DEF MayFollow
  <2>. QED BY <1>1, <1>2, <2>1, <2>3, SendInOrder
<1>8. InOrder'
  BY <1>1 DEF InOrder
<1>9. HereInv'
  <2>1. bag' \cap shop'.items # {} => bag \cap shop.items # {}
    BY DEF database
  <2>2. Pending(c)' = Pending(c) /\ Accepts(c)' = Accepts(c) /\ Exists' = Exists /\ Away' = Away
    BY DEF core, database, Pending, Accepts, Coming, Exists, Away
  <2>3. /\ here' = here /\ locked' = locked /\ skip' = skip /\ pend' = pend /\ up' = up /\ playing' = playing
        /\ last' = last /\ panel' = panel
    BY DEF core, database
  <2>4. here' # Away' /\ here'.core = c
    BY <1>2, <2>2, <2>3
  <2>. QED BY <1>1, <1>2, <2>1, <2>2, <2>3, <2>4 DEF HereInv
<1>10. CoreInv'
  BY <1>1, <1>3 DEF CoreInv, CoreOK, core, database, Pending, Coming
<1>11. OutInv'
  <2> SUFFICES ASSUME NEW d \in Cores, NEW m \in Sent(d)' PROVE OutOK(d, m)'
    BY DEF OutInv
  <2>1. CASE m \in Sent(d)
    <3>1. OutOK(d, m)
      BY <1>1, <2>1 DEF OutInv
    <3>. QED BY <3>1 DEF OutOK, IsHere, Coming, core, database
  <2>2. CASE d = c /\ m \in Range(ms)
    <3>1. playing = c
      BY <1>1, <1>2 DEF HereInv
    <3>. QED BY <2>2, <3>1 DEF OutOK, core, database
  <2>. QED BY <1>3, <2>1, <2>2
<1>12. InInv'
  <2> SUFFICES ASSUME NEW d \in Cores, NEW m \in Coming(d)' PROVE InOK(d, m)'
    BY DEF InInv
  <2>1. m \in Coming(d) /\ InOK(d, m)
    BY <1>1 DEF InInv, Coming
  <2>2. m.op # "PLAYER_LOAD"
    BY <1>2, <2>1 DEF InOK
  <2>. QED BY <2>1, <2>2 DEF InOK, Pending, Exists, core, database
<1>13. BindInv'
  <2>1. \A d, k : (LogsOut(d, k) /\ d \in Cores => LogsOut(d, k)') /\ (Hears(d, k) => Hears(d, k)')
    BY <1>3 DEF LogsOut, Hears, LoadComes, Accepts, Coming, core
  <2>2. shop.owner.core \in up => shop.owner.core \in Cores
    BY <1>1 DEF CoreTypes
  <2>. QED BY <1>1, <2>1, <2>2 DEF BindInv, Exists, core, database
<1>. QED BY <1>5, <1>6, <1>7, <1>8, <1>9, <1>10, <1>11, <1>12, <1>13 DEF BuildInv

-----------------------------------------------------------------------------
\* The DB process takes a message off the connection from c.
Takes(c, m) ==
    /\ c \in peers /\ out[c] # <<>> /\ m = Head(out[c]) /\ out' = [out EXCEPT ![c] = Tail(@)]
    /\ UNCHANGED <<client, core, peers, loads, last>>

LEMMA TakesIs ==
    ASSUME BuildInv, NEW c \in Cores, NEW m, Takes(c, m)
    PROVE  /\ m \in OutMsgs /\ m \in Sent(c) /\ OutOK(c, m) /\ OutOrder'
           /\ out' \in [Cores -> Seq(OutMsgs)] /\ ClientTypes' /\ CoreTypes'
           /\ \A d \in Cores : \A w : /\ w \in Sent(d)' => w \in Sent(d) /\ OutOK(d, w)
                                      /\ w \in Sent(d) => w \in Sent(d)' \/ (d = c /\ w = m)
           /\ \A w \in Sent(c)' : MayFollow(m, w)
           /\ \A d, k : LogsOut(d, k) /\ d \in Cores => LogsOut(d, k)' \/ (d = c /\ m.op = "LOGOUT" /\ m.desc = k)
<1>1. MailTypes /\ OutOrder /\ OutInv
  BY DEF BuildInv, BuildTypeOK
<1>2. /\ out' \in [Cores -> Seq(OutMsgs)] /\ m \in OutMsgs /\ \A d \in Cores : d # c => Sent(d)' = Sent(d)
      /\ Sent(c) = {m} \cup Sent(c)'
  BY <1>1, TakenIs DEF Takes, Sent
<1>3. OutOrder' /\ \A w \in Sent(c)' : MayFollow(m, w)
  BY <1>1, TakenInOrder DEF Takes, Sent
<1>4. ClientTypes' /\ CoreTypes'
  BY DEF BuildInv, BuildTypeOK, ClientTypes, CoreTypes, Takes, client, core
<1>5. ASSUME NEW d \in Cores, NEW w
      PROVE  /\ w \in Sent(d)' => w \in Sent(d) /\ OutOK(d, w)
             /\ w \in Sent(d) => w \in Sent(d)' \/ (d = c /\ w = m)
  BY <1>1, <1>2 DEF OutInv
<1>6. ASSUME NEW d \in Cores, NEW k, LogsOut(d, k)
      PROVE  LogsOut(d, k)' \/ (d = c /\ m.op = "LOGOUT" /\ m.desc = k)
  BY <1>5, <1>6 DEF LogsOut
<1>7. m \in Sent(c) /\ OutOK(c, m)
  BY <1>1, <1>2 DEF OutInv
<1>. QED BY <1>2, <1>3, <1>4, <1>5, <1>6, <1>7

\* Rows are written.
LEMMA RowsKeep ==
    ASSUME BuildInv, NEW c \in Cores, NEW m, Takes(c, m), QUERY_ITEM_SAVE(m) \/ QUERY_ITEM_DESTROY(m)
    PROVE  BuildInv'
<1>1. /\ BuildTypeOK /\ ClientTypes /\ CoreTypes /\ DatabaseTypes /\ MailTypes
      /\ OutOrder /\ InOrder /\ HereInv /\ CoreInv /\ OutInv /\ InInv /\ BindInv
  BY DEF BuildInv, BuildTypeOK
<1>2. UNCHANGED <<client, core, peers, loads, last, shop, playing, in>> /\ m.op \in {"ITEM_SAVE", "ITEM_DESTROY"}
  BY DEF Takes, QUERY_ITEM_SAVE, QUERY_ITEM_DESTROY
<1>3. /\ m \in OutMsgs /\ OutOK(c, m) /\ OutOrder' /\ out' \in [Cores -> Seq(OutMsgs)] /\ ClientTypes' /\ CoreTypes'
      /\ \A d \in Cores : \A w : /\ w \in Sent(d)' => w \in Sent(d) /\ OutOK(d, w)
                                 /\ w \in Sent(d) => w \in Sent(d)' \/ (d = c /\ w = m)
      /\ \A d, k : LogsOut(d, k) /\ d \in Cores => LogsOut(d, k)'
  BY <1>2, TakesIs
<1>4. /\ row' \in [Items -> {"owner", "other", "none"}] /\ bundleRow' \in Nat
      /\ \A i \in Items : row'[i] = row[i] \/ (row[i] # "none" /\ row'[i] # "none")
  <2>1. CASE QUERY_ITEM_SAVE(m)
    <3>1. /\ m.op = "ITEM_SAVE" /\ m.item \in Items \cup {Bundle} /\ m.who \in {"owner", "other"} /\ m.count \in Nat
          /\ m.item \notin shop.items
      BY <1>3, <2>1, OutFields DEF QUERY_ITEM_SAVE, OutOK
    <3>2. m.item \in Items => row[m.item] # "none"
      BY <3>1 DEF BuildInv, OnePlace
    <3>. QED BY <1>1, <2>1, <3>1, <3>2 DEF QUERY_ITEM_SAVE, DatabaseTypes
  <2>2. CASE QUERY_ITEM_DESTROY(m)
    BY <1>1, <1>3, <2>2, OutFields DEF QUERY_ITEM_DESTROY, DatabaseTypes
  <2>. QED BY <2>1, <2>2
<1>5. BuildTypeOK'
  BY <1>1, <1>2, <1>3, <1>4 DEF BuildTypeOK, DatabaseTypes, MailTypes, core
<1>6. OnePlace' /\ HeldWhilePending'
  BY <1>2, <1>4 DEF BuildInv, OnePlace, HeldWhilePending, client, core
<1>7. InOrder' /\ HereInv'
  BY <1>1, <1>2 DEF InOrder, HereInv, client, core, Pending, Accepts, Coming, Exists
<1>8. CoreInv'
  <2> SUFFICES ASSUME NEW d \in Cores PROVE CoreOK(d)'
    BY DEF CoreInv
  <2>1. CoreOK(d) /\ \A w \in Sent(d) : w.op = "CREATE" => w \in Sent(d)'
    BY <1>1, <1>2, <1>3 DEF CoreInv
  <2>. QED BY <1>2, <2>1 DEF CoreOK, core, Pending, Coming
<1>9. OutInv'
  <2> SUFFICES ASSUME NEW d \in Cores, NEW w \in Sent(d)' PROVE OutOK(d, w)'
    BY DEF OutInv
  <2>1. OutOK(d, w)
    BY <1>3
  <2>. QED BY <1>2, <2>1 DEF OutOK, IsHere, Coming, client, core
<1>10. InInv'
  <2> SUFFICES ASSUME NEW d \in Cores, NEW w \in Coming(d)' PROVE InOK(d, w)'
    BY DEF InInv
  <2>1. InOK(d, w) /\ \A x \in Sent(d)' : x \in Sent(d)
    BY <1>1, <1>2, <1>3 DEF InInv, Coming
  <2>. QED BY <1>2, <2>1 DEF InOK, LoadComes, Coming, Pending, Exists, client, core
<1>11. BindInv'
  <2>1. shop.owner.core \in up => shop.owner.core \in Cores
    BY <1>1 DEF CoreTypes
  <2>2. \A d, k : Hears(d, k)' = Hears(d, k)
    BY <1>2 DEF Hears, LoadComes, Accepts, Coming, core
  <2>. QED BY <1>1, <1>2, <1>3, <2>1, <2>2 DEF BindInv, Exists, client, core
<1>. QED BY <1>3, <1>5, <1>6, <1>7, <1>8, <1>9, <1>10, <1>11 DEF BuildInv

\* A connection says that it is over.
LEMMA LogoutKeeps ==
    ASSUME BuildInv, NEW c \in Cores, NEW m, Takes(c, m), PrivateShopLogout(c, m)
    PROVE  BuildInv'
<1>1. /\ BuildTypeOK /\ ClientTypes /\ CoreTypes /\ DatabaseTypes /\ MailTypes
      /\ OutOrder /\ InOrder /\ HereInv /\ CoreInv /\ OutInv /\ InInv /\ BindInv
  BY DEF BuildInv, BuildTypeOK
<1>2. UNCHANGED <<client, core, peers, loads, last, row, bundleRow, playing, in>> /\ m.op = "LOGOUT"
  BY DEF Takes, PrivateShopLogout
<1>3. /\ m \in OutMsgs /\ OutOK(c, m) /\ OutOrder' /\ out' \in [Cores -> Seq(OutMsgs)] /\ ClientTypes' /\ CoreTypes'
      /\ \A d \in Cores : \A w : /\ w \in Sent(d)' => w \in Sent(d) /\ OutOK(d, w)
                                 /\ w \in Sent(d) => w \in Sent(d)' \/ (d = c /\ w = m)
      /\ \A d, k : LogsOut(d, k) /\ d \in Cores => LogsOut(d, k)' \/ (d = c /\ m.desc = k)
  BY TakesIs
<1>4. /\ shop' \in ShopRecords
      /\ shop'.items = shop.items /\ shop'.host = shop.host
      /\ shop' = shop \/ (shop'.owner = Away /\ shop.owner = [core |-> c, desc |-> m.desc])
      /\ shop.owner = [core |-> c, desc |-> m.desc] => shop'.owner = Away
  <2>1. CASE Bound(c, m)
    <3>1. shop \in [items : Stock, host : Cores, owner : Session \cup {Away}]
      BY <1>1, <2>1 DEF DatabaseTypes, Bound, Exists, ShopRecords
    <3>2. shop' = [shop EXCEPT !.owner = Away]
      BY <2>1 DEF PrivateShopLogout
    <3>. QED BY <2>1, <3>1, <3>2 DEF Bound, ShopRecords
  <2>2. CASE ~Bound(c, m)
    <3>1. shop' = shop
      BY <2>2 DEF PrivateShopLogout
    <3>2. shop.owner # [core |-> c, desc |-> m.desc]
      <4>1. CASE Exists
        BY <2>2, <4>1 DEF Bound
      <4>2. CASE ~Exists
        BY <1>1, <4>2, ShopIs, BuildAssumption DEF Away
      <4>. QED BY <4>1, <4>2
    <3>. QED BY <1>1, <3>1, <3>2 DEF DatabaseTypes
  <2>. QED BY <2>1, <2>2
<1>5. DatabaseTypes'
  BY <1>1, <1>2, <1>4 DEF DatabaseTypes
<1>6. Exists' = Exists
  BY <1>1, <1>4, ShopValue DEF Exists, ShopRecords, DatabaseTypes
<1>7. BuildTypeOK'
  BY <1>1, <1>2, <1>3, <1>5 DEF BuildTypeOK, MailTypes, core
<1>8. OnePlace' /\ HeldWhilePending'
  BY <1>2, <1>4 DEF BuildInv, OnePlace, HeldWhilePending, client, core
<1>9. InOrder' /\ HereInv'
  <2>1. /\ here' = here /\ bag' = bag /\ locked' = locked /\ skip' = skip /\ dirty' = dirty /\ panel' = panel
        /\ pend' = pend /\ up' = up /\ playing' = playing /\ last' = last /\ in' = in
    BY <1>2 DEF client, core
  <2>2. \A d : Accepts(d)' = Accepts(d) /\ Pending(d)' = Pending(d)
    BY <2>1 DEF Accepts, Coming, Pending
  <2>3. InOrder'
    BY <1>1, <2>1 DEF InOrder
  <2>. QED BY <1>1, <1>4, <1>6, <2>1, <2>2, <2>3 DEF HereInv
<1>10. CoreInv'
  <2> SUFFICES ASSUME NEW d \in Cores PROVE CoreOK(d)'
    BY DEF CoreInv
  <2>1. CoreOK(d) /\ \A w \in Sent(d) : w.op = "CREATE" => w \in Sent(d)'
    BY <1>1, <1>2, <1>3 DEF CoreInv
  <2>. QED BY <1>2, <1>4, <2>1 DEF CoreOK, core, Pending, Coming
<1>11. OutInv'
  <2> SUFFICES ASSUME NEW d \in Cores, NEW w \in Sent(d)' PROVE OutOK(d, w)'
    BY DEF OutInv
  <2>1. OutOK(d, w)
    BY <1>3
  <2>. QED BY <1>2, <1>4, <2>1 DEF OutOK, IsHere, Coming, client, core
<1>12. InInv'
  <2> SUFFICES ASSUME NEW d \in Cores, NEW w \in Coming(d)' PROVE InOK(d, w)'
    BY DEF InInv
  <2>1. InOK(d, w) /\ w \in Coming(d) /\ \A x \in Sent(d)' : x \in Sent(d)
    BY <1>1, <1>2, <1>3 DEF InInv, Coming
  <2>2. w.op = "PLAYER_LOAD" /\ shop.owner = [core |-> d, desc |-> w.desc] => shop' = shop
    <3> SUFFICES ASSUME w.op = "PLAYER_LOAD", shop.owner = [core |-> d, desc |-> w.desc], shop' # shop PROVE FALSE
      OBVIOUS
    <3>1. [core |-> d, desc |-> w.desc] = [core |-> c, desc |-> m.desc]
      BY <1>4
    <3>2. d = c /\ w.desc = m.desc
      BY <3>1
    <3>. QED BY <1>2, <1>3, <2>1, <3>2 DEF OutOK
  <2>. QED BY <1>2, <1>4, <1>6, <2>1, <2>2 DEF InOK, LoadComes, Coming, Pending, client, core
<1>13. BindInv'
  <2>1. \A d, k : Hears(d, k)' = Hears(d, k)
    BY <1>2 DEF Hears, LoadComes, Accepts, Coming, core
  <2>2. CASE shop' # shop
    <3>1. shop'.owner.core \notin up /\ shop.owner # here
      <4>1. shop'.owner.core = NoCore /\ shop.owner = [core |-> c, desc |-> m.desc]
        BY <1>4, <2>2 DEF Away
      <4>2. here # [core |-> c, desc |-> m.desc]
        BY <1>1, <1>2, <1>3, HereIs DEF OutOK
      <4>. QED BY <1>1, <4>1, <4>2, BuildAssumption DEF CoreTypes
    <3>. QED BY <1>1, <1>2, <1>4, <1>6, <2>1, <3>1 DEF BindInv, client, core
  <2>3. CASE shop' = shop
    <3>1. shop.owner.core \in up => ~(shop.owner.core = c /\ shop.owner.desc = m.desc) /\ shop.owner.core \in Cores
      <4> SUFFICES ASSUME shop.owner.core \in up PROVE ~(shop.owner.core = c /\ shop.owner.desc = m.desc) /\ shop.owner.core \in Cores
        OBVIOUS
      <4>1. shop.owner \in Session
        BY <1>1, ShopIs DEF CoreTypes
      <4>2. shop.owner # [core |-> c, desc |-> m.desc]
        BY <1>4, <2>3, <4>1, SessionIs, BuildAssumption DEF Away
      <4>. QED BY <4>1, <4>2, SessionIs
    <3>. QED BY <1>1, <1>2, <1>3, <1>6, <2>1, <2>3, <3>1 DEF BindInv, client, core
  <2>. QED BY <2>2, <2>3
<1>. QED BY <1>3, <1>7, <1>8, <1>9, <1>10, <1>11, <1>12, <1>13 DEF BuildInv

\* The session that plays is over.
LEMMA AccountLogoutKeeps ==
    ASSUME BuildInv, NEW c \in Cores, NEW m, Takes(c, m), QUERY_LOGOUT(m)
    PROVE  BuildInv'
<1>1. /\ BuildTypeOK /\ ClientTypes /\ CoreTypes /\ DatabaseTypes /\ MailTypes
      /\ OutOrder /\ InOrder /\ HereInv /\ CoreInv /\ OutInv /\ InInv /\ BindInv
  BY DEF BuildInv, BuildTypeOK
<1>2. UNCHANGED <<client, core, peers, loads, last, row, bundleRow, shop, in>> /\ m.op = "ACCOUNT_LOGOUT" /\ playing' = NoCore
  BY DEF Takes, QUERY_LOGOUT
<1>3. /\ m \in Sent(c) /\ OutOK(c, m) /\ OutOrder' /\ out' \in [Cores -> Seq(OutMsgs)] /\ ClientTypes' /\ CoreTypes'
      /\ \A d \in Cores : \A w : /\ w \in Sent(d)' => w \in Sent(d) /\ OutOK(d, w)
                                 /\ w \in Sent(d) => w \in Sent(d)' \/ (d = c /\ w = m)
      /\ \A w \in Sent(c)' : MayFollow(m, w)
      /\ \A d, k : LogsOut(d, k) /\ d \in Cores => LogsOut(d, k)'
  BY <1>2, TakesIs
<1>4. here = Away /\ playing = c /\ Own(m)
  BY <1>2, <1>3 DEF OutOK, Own
<1>5. BuildTypeOK'
  BY <1>1, <1>2, <1>3 DEF BuildTypeOK, DatabaseTypes, MailTypes, core
<1>6. OnePlace' /\ HeldWhilePending'
  BY <1>2 DEF BuildInv, OnePlace, HeldWhilePending, client, core
<1>7. InOrder' /\ HereInv'
  BY <1>1, <1>2, <1>4 DEF InOrder, HereInv, client, core, Pending, Accepts, Coming, Exists
<1>8. CoreInv'
  <2> SUFFICES ASSUME NEW d \in Cores PROVE CoreOK(d)'
    BY DEF CoreInv
  <2>1. CoreOK(d) /\ \A w \in Sent(d) : w.op = "CREATE" => w \in Sent(d)'
    BY <1>1, <1>2, <1>3 DEF CoreInv
  <2>. QED BY <1>2, <2>1 DEF CoreOK, core, Pending, Coming
<1>9. OutInv'
  <2> SUFFICES ASSUME NEW d \in Cores, NEW w \in Sent(d)' PROVE OutOK(d, w)'
    BY DEF OutInv
  <2>1. OutOK(d, w)
    BY <1>3
  <2>2. ~Own(w)
    <3>1. Own(w) => d = c
      BY <1>4, <2>1 DEF OutOK
    <3>. QED BY <1>2, <1>3, <3>1 DEF MayFollow
  <2>. QED BY <1>2, <2>1, <2>2 DEF OutOK, IsHere, Coming, client, core
<1>10. InInv'
  <2> SUFFICES ASSUME NEW d \in Cores, NEW w \in Coming(d)' PROVE InOK(d, w)'
    BY DEF InInv
  <2>1. InOK(d, w) /\ w \in Coming(d)
    BY <1>1, <1>2 DEF InInv, Coming
  <2>2. w.op # "PLAYER_LOAD"
    BY <1>3, <1>4, <2>1 DEF InOK
  <2>. QED BY <1>2, <2>1, <2>2 DEF InOK, Pending, Exists, core
<1>11. BindInv'
  <2>1. shop.owner.core \in up => shop.owner.core \in Cores
    BY <1>1 DEF CoreTypes
  <2>2. \A d, k : Hears(d, k)' = Hears(d, k)
    BY <1>2 DEF Hears, LoadComes, Accepts, Coming, core
  <2>. QED BY <1>1, <1>2, <1>3, <2>1, <2>2 DEF BindInv, Exists, client, core
<1>. QED BY <1>3, <1>5, <1>6, <1>7, <1>8, <1>9, <1>10, <1>11 DEF BuildInv

\* What the DB process sends arrives unless the core is gone.
LEMMA ToldIs ==
    ASSUME BuildInv, NEW c \in Cores, NEW a \in InMsgs, Tell(c, a)
    PROVE  /\ in' \in [Cores -> Seq(InMsgs)]
           /\ \A d \in Cores \ up : in'[d] = <<>>
           /\ \A d \in Cores : \A w : w \in Coming(d)' <=> w \in Coming(d) \/ (d = c /\ c \in up /\ w = a)
           /\ \A d, k : LoadComes(d, k) /\ d \in Cores => LoadComes(d, k)'
           /\ \A d : Accepts(d) /\ d \in Cores => Accepts(d)'
<1>1. MailTypes
  BY DEF BuildInv, BuildTypeOK
<1>2. /\ in' \in [Cores -> Seq(InMsgs)] /\ \A d \in Cores : d # c \/ c \notin up => in'[d] = in[d]
      /\ c \in up => Range(in'[c]) = Range(in[c]) \cup {a}
  BY <1>1, TellIs
<1>3. \A d \in Cores \ up : in'[d] = <<>>
  BY <1>1, <1>2 DEF MailTypes
<1>4. ASSUME NEW d \in Cores, NEW w
      PROVE  w \in Coming(d)' <=> w \in Coming(d) \/ (d = c /\ c \in up /\ w = a)
  <2>1. CASE d = c /\ c \in up
    BY <1>2, <2>1 DEF Coming
  <2>2. CASE d # c \/ c \notin up
    BY <1>2, <2>2 DEF Coming
  <2>. QED BY <2>1, <2>2
<1>5. \A d, k : LoadComes(d, k) /\ d \in Cores => LoadComes(d, k)'
  BY <1>4 DEF LoadComes
<1>6. \A d : Accepts(d) /\ d \in Cores => Accepts(d)'
  BY <1>4 DEF Accepts
<1>. QED BY <1>2, <1>3, <1>4, <1>5, <1>6

\* A build is refused, or accepted.
LEMMA CreateKeeps ==
    ASSUME BuildInv, NEW c \in Cores, NEW m, Takes(c, m), PrivateShopBuild(c, m)
    PROVE  BuildInv'
<1>1. /\ BuildTypeOK /\ ClientTypes /\ CoreTypes /\ DatabaseTypes /\ MailTypes
      /\ OutOrder /\ InOrder /\ HereInv /\ CoreInv /\ OutInv /\ InInv /\ BindInv
  BY DEF BuildInv, BuildTypeOK
<1>2. UNCHANGED <<client, core, peers, loads, last, bundleRow, playing>> /\ m.op = "CREATE"
  BY DEF Takes, PrivateShopBuild
<1>3. /\ m \in OutMsgs /\ m \in Sent(c) /\ OutOK(c, m) /\ OutOrder'
      /\ out' \in [Cores -> Seq(OutMsgs)] /\ ClientTypes' /\ CoreTypes'
      /\ \A d \in Cores : \A w : /\ w \in Sent(d)' => w \in Sent(d) /\ OutOK(d, w)
                                 /\ w \in Sent(d) => w \in Sent(d)' \/ (d = c /\ w = m)
      /\ \A w \in Sent(c)' : MayFollow(m, w)
      /\ \A d, k : LogsOut(d, k) /\ d \in Cores => LogsOut(d, k)'
  BY <1>2, TakesIs
<1>4. PICK ok \in BOOLEAN :
        /\ Tell(c, [op |-> "CREATE_RESULT", ok |-> ok])
        /\ ~ok => Exists /\ UNCHANGED <<row, shop>>
        /\ ok => /\ ~Exists
                 /\ shop' = [items |-> m.items, host |-> c, owner |-> [core |-> c, desc |-> m.desc]]
                 /\ row' = [i \in Items |-> IF i \in m.items THEN "none" ELSE row[i]]
  BY DEF PrivateShopBuild, Refused
<1> DEFINE a == [op |-> "CREATE_RESULT", ok |-> ok]
<1>5. a \in InMsgs /\ a.op = "CREATE_RESULT" /\ (a.ok <=> ok)
  BY DEF InMsgs
<1> HIDE DEF a
<1>6. /\ in' \in [Cores -> Seq(InMsgs)] /\ \A d \in Cores \ up : in'[d] = <<>>
      /\ \A d \in Cores : \A w : w \in Coming(d)' <=> w \in Coming(d) \/ (d = c /\ c \in up /\ w = a)
      /\ \A d, k : LoadComes(d, k) /\ d \in Cores => LoadComes(d, k)'
      /\ \A d : Accepts(d) /\ d \in Cores => Accepts(d)'
  BY <1>4, <1>5, ToldIs DEF a
<1>7. /\ playing = c /\ m.items \subseteq Items /\ m.items # {} /\ m.items \in Stock /\ m.desc \in Nat /\ shop.host # c
      /\ c \in up => /\ pend[c].items = m.items /\ pend[c].desc = m.desc /\ Pending(c) /\ m.desc \in 1 .. last
                     /\ \A w \in Coming(c) : w.op \notin {"CREATE_RESULT", "PLAYER_LOAD"}
  <2>1. /\ playing = c /\ m.items \subseteq Items /\ m.items # {} /\ m.items \in Stock /\ m.desc \in Nat /\ Own(m)
    BY <1>2, <1>3, OutFields DEF OutOK, Own, Stock
  <2>2. /\ shop.host # c
        /\ c \in up => /\ pend[c].items = m.items /\ pend[c].desc = m.desc
                       /\ \A w \in Coming(c) : w.op # "CREATE_RESULT"
    BY <1>2, <1>3 DEF OutOK
  <2>3. \A w \in Coming(c) : w.op # "PLAYER_LOAD"
    BY <1>1, <1>3, <2>1 DEF InInv, InOK
  <2>4. c \in up => Pending(c)
    BY <1>1, <2>1, <2>2, PendIs
  <2>5. CoreOK(c)
    BY <1>1 DEF CoreInv
  <2>. QED BY <2>1, <2>2, <2>3, <2>4, <2>5 DEF CoreOK
<1>8. /\ DatabaseTypes' /\ Exists' /\ (~ok => Exists) /\ (ok => ~Exists /\ shop'.items = m.items /\ shop'.host = c)
      /\ ok => shop'.owner = [core |-> c, desc |-> m.desc] /\ shop'.owner.core = c /\ shop'.owner.desc = m.desc
  <2>1. CASE ~ok
    BY <1>1, <1>2, <1>4, <2>1 DEF DatabaseTypes, Exists
  <2>2. CASE ok
    <3>1. shop' \in ShopRecords /\ shop'.items = m.items /\ shop'.host = c
      BY <1>4, <1>7, <2>2 DEF ShopRecords, Session
    <3>2. shop'.owner = [core |-> c, desc |-> m.desc] /\ shop'.owner.core = c /\ shop'.owner.desc = m.desc
      BY <1>4, <2>2
    <3>3. shop' # NoShop
      BY <1>7, <3>1, ShopValue
    <3>4. row' \in [Items -> {"owner", "other", "none"}]
      BY <1>1, <1>4, <2>2 DEF DatabaseTypes
    <3>. QED BY <1>1, <1>2, <1>4, <2>2, <3>1, <3>2, <3>3, <3>4 DEF DatabaseTypes, Exists
  <2>. QED BY <2>1, <2>2
<1>9. ~Exists => shop.items = {} /\ shop.host = NoCore
  BY <1>1, ShopIs
<1>10. BuildTypeOK'
  BY <1>1, <1>2, <1>3, <1>6, <1>8 DEF BuildTypeOK, MailTypes, core
<1>11. here # Away => here.core = c /\ locked = m.items /\ (Pending(c) => here.desc = pend[c].desc)
  <2> SUFFICES ASSUME here # Away PROVE here.core = c /\ locked = m.items /\ (Pending(c) => here.desc = pend[c].desc)
    OBVIOUS
  <2>1. here.core = c
    BY <1>1, <1>7 DEF HereInv
  <2>2. locked = m.items
    BY <1>2, <1>3, <2>1, LockedIs
  <2>. QED BY <1>1, <2>1, <2>2 DEF HereInv
<1>12. OnePlace' /\ HeldWhilePending'
  <2>1. HeldWhilePending'
    <3>1. here' = here /\ locked' = locked /\ skip' = skip /\ pend' = pend
      BY <1>2 DEF client, core
    <3>2. HeldWhilePending
      BY DEF BuildInv
    <3>. QED BY <3>1, <3>2 DEF HeldWhilePending
  <2>2. CASE ~ok
    <3>1. row' = row /\ shop' = shop /\ bag' = bag /\ locked' = locked
      BY <1>2, <1>4, <2>2 DEF client
    <3>2. OnePlace
      BY DEF BuildInv
    <3>. QED BY <2>1, <3>1, <3>2 DEF OnePlace
  <2>3. CASE ok
    <3>1. \A i \in Items : row[i] # "none"
      BY <1>4, <1>9, <2>3 DEF BuildInv, OnePlace
    <3>2. bag \cap m.items \subseteq locked
      BY <1>1, <1>11 DEF HereInv
    <3>3. \A i \in Items : (i \in m.items) # (row'[i] # "none")
      BY <1>4, <2>3, <3>1
    <3>4. bag' = bag /\ locked' = locked /\ shop'.items = m.items
      BY <1>2, <1>8, <2>3 DEF client
    <3>. QED BY <2>1, <3>2, <3>3, <3>4 DEF OnePlace
  <2>. QED BY <2>1, <2>2, <2>3
<1>13. InOrder'
  <2>1. CASE c \in up
    <3>1. \A w \in Coming(c) : MayAnswer(w, a)
      BY <1>5, <1>7, <2>1 DEF MayAnswer
    <3>. QED BY <1>1, <1>4, <1>5, <3>1, TellInOrder DEF a
  <2>2. CASE c \notin up
    BY <1>1, <1>4, <2>2 DEF Tell, InOrder
  <2>. QED BY <2>1, <2>2
<1>14. HereInv'
  <2>1. /\ here' = here /\ bag' = bag /\ locked' = locked /\ skip' = skip /\ dirty' = dirty /\ panel' = panel
        /\ pend' = pend /\ up' = up /\ playing' = playing /\ last' = last
    BY <1>2 DEF client, core
  <2>2. bag \cap shop'.items # {} => Accepts(here.core)'
    <3> SUFFICES ASSUME bag \cap shop'.items # {} PROVE Accepts(here.core)'
      OBVIOUS
    <3>1. here # Away /\ here.core = c /\ c \in up
      BY <1>1, <1>11 DEF HereInv
    <3>2. CASE ok
      BY <1>5, <1>6, <2>1, <3>1, <3>2 DEF Accepts
    <3>3. CASE ~ok
      BY <1>1, <1>4, <1>6, <2>1, <3>1, <3>3 DEF HereInv
    <3>. QED BY <3>2, <3>3
  <2>3. \A d : Pending(d)' = Pending(d)
    BY <2>1 DEF Pending
  <2>. QED BY <1>1, <1>8, <2>1, <2>2, <2>3 DEF HereInv
<1>15. CoreInv'
  <2> SUFFICES ASSUME NEW d \in Cores PROVE CoreOK(d)'
    BY DEF CoreInv
  <2>1. CoreOK(d) /\ Pending(d)' = Pending(d)
    BY <1>1, <1>2 DEF CoreInv, Pending, core
  <2>2. Pending(d) => \/ \E w \in Sent(d)' : w.op = "CREATE"
                      \/ \E w \in Coming(d)' : w.op = "CREATE_RESULT"
    BY <1>3, <1>5, <1>6, <2>1 DEF CoreOK
  <2>3. d \in up => stall[d] = IF Pending(d) THEN {} ELSE IF shop'.host = d THEN shop'.items ELSE NoStall
    <3>1. CASE ok /\ d = c
      BY <1>7, <2>1, <3>1 DEF CoreOK
    <3>2. CASE ok /\ d # c
      BY <1>8, <1>9, <2>1, <3>2, BuildAssumption DEF CoreOK
    <3>3. CASE ~ok
      BY <1>4, <2>1, <3>3 DEF CoreOK
    <3>. QED BY <3>1, <3>2, <3>3
  <2>. QED BY <1>2, <2>1, <2>2, <2>3 DEF CoreOK, core
<1>16. OutInv'
  <2> SUFFICES ASSUME NEW d \in Cores, NEW w \in Sent(d)' PROVE OutOK(d, w)'
    BY DEF OutInv
  <2>1. OutOK(d, w) /\ w \in OutMsgs
    BY <1>1, <1>3, RangeIs DEF MailTypes, Sent
  <2>2. Own(w) => d = c
    BY <1>7, <2>1 DEF OutOK
  <2>3. w.op # "CREATE"
    BY <1>2, <1>3, <2>2 DEF MayFollow, Own
  <2>4. w.op = "ITEM_SAVE" => w.item \notin shop'.items
    <3>1. w.op = "ITEM_SAVE" => w.item \notin m.items
      BY <1>2, <1>3, <1>7, <2>1, <2>2, OutFields, BuildAssumption DEF MayFollow, Own
    <3>. QED BY <1>4, <1>8, <2>1, <3>1 DEF OutOK
  <2>5. w.op = "LOGOUT" => \A x \in Coming(d)' : x.op = "PLAYER_LOAD" => x.desc # w.desc
    BY <1>5, <1>6, <2>1 DEF OutOK
  <2>. QED BY <1>2, <2>1, <2>3, <2>4, <2>5 DEF OutOK, IsHere, client, core
<1>17. InInv'
  <2> SUFFICES ASSUME NEW d \in Cores, NEW w \in Coming(d)' PROVE InOK(d, w)'
    BY DEF InInv
  <2>1. CASE w \in Coming(d)
    <3>1. InOK(d, w)
      BY <1>1, <2>1 DEF InInv
    <3>2. w.op # "PLAYER_LOAD"
      BY <1>2, <1>3, <1>7, <3>1 DEF InOK, Own
    <3>3. w.op = "CREATE_RESULT" => shop' = shop
      BY <1>4, <3>1 DEF InOK
    <3>. QED BY <1>2, <1>8, <3>1, <3>2, <3>3 DEF InOK, Pending, core
  <2>2. CASE d = c /\ c \in up /\ w = a
    BY <1>2, <1>4, <1>5, <1>7, <1>8, <2>2 DEF InOK, Pending, core
  <2>. QED BY <1>6, <2>1, <2>2
<1>18. BindInv'
  <2>1. shop.owner.core \in up => shop.owner.core \in Cores
    BY <1>1 DEF CoreTypes
  <2>2. \A d, k : d \in Cores /\ Hears(d, k) => Hears(d, k)'
    BY <1>2, <1>6 DEF Hears, core
  <2>3. CASE ~ok
    <3>1. shop' = shop /\ Exists' = Exists
      BY <1>4, <2>3 DEF Exists
    <3>2. here # Away => here.core \in Cores
      BY <1>1, HereIs
    <3>. QED BY <1>1, <1>2, <1>3, <2>1, <2>2, <3>1, <3>2 DEF BindInv, client, core
  <2>4. CASE ok
    <3>1. c \in up => Hears(c, m.desc)'
      BY <1>2, <1>5, <1>6, <1>7, <2>4 DEF Hears, Accepts, core
    <3>2. here # Away => c \in up /\ here = shop'.owner /\ here.core = c /\ here.desc = m.desc
      <4> SUFFICES ASSUME here # Away PROVE c \in up /\ here = shop'.owner /\ here.core = c /\ here.desc = m.desc
        OBVIOUS
      <4>1. c \in up /\ here.core = c /\ here.desc = m.desc
        BY <1>1, <1>7, <1>11 DEF HereInv
      <4>2. here = [core |-> c, desc |-> m.desc]
        BY <1>1, <4>1, HereIs DEF IsHere
      <4>. QED BY <1>8, <2>4, <4>1, <4>2
    <3>. QED BY <1>1, <1>2, <1>8, <2>4, <3>1, <3>2 DEF BindInv, client, core
  <2>. QED BY <2>3, <2>4
<1>. QED BY <1>3, <1>10, <1>12, <1>13, <1>14, <1>15, <1>16, <1>17, <1>18 DEF BuildInv

\* The DB process notices the loss of a core.
LEMMA RemovePeerKeeps ==
    ASSUME BuildInv, NEW c \in Cores, RemovePeer(c)
    PROVE  BuildInv'
<1>1. /\ BuildTypeOK /\ ClientTypes /\ CoreTypes /\ DatabaseTypes /\ MailTypes
      /\ OutOrder /\ InOrder /\ HereInv /\ CoreInv /\ OutInv /\ InInv /\ BindInv
  BY DEF BuildInv, BuildTypeOK
<1>2. /\ c \in peers \ up /\ out[c] = <<>> /\ peers' = peers \ {c}
      /\ playing' = (IF playing = c THEN NoCore ELSE playing)
      /\ UNCHANGED <<client, core, row, bundleRow, loads, last, out, in>>
  BY DEF RemovePeer
<1>3. Sent(c) = {} /\ \A d \in Cores : Sent(d)' = Sent(d) /\ Coming(d)' = Coming(d)
  BY <1>2, QueueOfNone DEF Sent, Coming
<1>4. /\ shop' \in ShopRecords /\ shop'.items = shop.items /\ shop'.host = shop.host
      /\ shop' = shop \/ (shop'.owner = Away /\ shop.owner.core = c)
  <2>1. CASE Exists /\ shop.host = c /\ shop.owner.core = c
    <3>1. shop \in [items : Stock, host : Cores, owner : Session \cup {Away}]
      BY <1>1, <2>1 DEF DatabaseTypes, Exists, ShopRecords
    <3>2. shop' = [shop EXCEPT !.owner = Away]
      BY <2>1 DEF RemovePeer
    <3>. QED BY <2>1, <3>1, <3>2 DEF ShopRecords
  <2>2. CASE ~(Exists /\ shop.host = c /\ shop.owner.core = c)
    BY <1>1, <2>2 DEF RemovePeer, DatabaseTypes
  <2>. QED BY <2>1, <2>2
<1>5. Exists' = Exists
  BY <1>1, <1>4, ShopValue DEF Exists, DatabaseTypes
<1>6. here # Away => here.core # c /\ playing' = playing
  BY <1>1, <1>2 DEF HereInv
<1>7. BuildTypeOK'
  BY <1>1, <1>2, <1>4 DEF BuildTypeOK, ClientTypes, CoreTypes, DatabaseTypes, MailTypes, client, core
<1>8. OnePlace' /\ HeldWhilePending'
  BY <1>2, <1>4 DEF BuildInv, OnePlace, HeldWhilePending, client, core
<1>9. OutOrder' /\ InOrder'
  BY <1>1, <1>2 DEF OutOrder, InOrder
<1>10. HereInv'
  <2>1. /\ here' = here /\ bag' = bag /\ locked' = locked /\ skip' = skip /\ dirty' = dirty /\ panel' = panel
        /\ pend' = pend /\ up' = up /\ last' = last /\ in' = in
    BY <1>2 DEF client, core
  <2>2. \A d : Accepts(d)' = Accepts(d) /\ Pending(d)' = Pending(d)
    BY <2>1 DEF Accepts, Coming, Pending
  <2>. QED BY <1>1, <1>4, <1>5, <1>6, <2>1, <2>2 DEF HereInv
<1>11. CoreInv'
  BY <1>1, <1>2, <1>3, <1>4 DEF CoreInv, CoreOK, core, Pending
<1>12. OutInv'
  <2> SUFFICES ASSUME NEW d \in Cores, NEW w \in Sent(d)' PROVE OutOK(d, w)'
    BY DEF OutInv
  <2>1. OutOK(d, w) /\ d # c
    BY <1>1, <1>3 DEF OutInv
  <2>2. Own(w) => playing' = d
    BY <1>2, <2>1 DEF OutOK
  <2>. QED BY <1>2, <1>4, <2>1, <2>2 DEF OutOK, IsHere, Coming, client, core
<1>13. InInv'
  <2> SUFFICES ASSUME NEW d \in Cores, NEW w \in Coming(d)' PROVE InOK(d, w)'
    BY DEF InInv
  <2>1. InOK(d, w) /\ Coming(d) # {}
    BY <1>1, <1>3 DEF InInv
  <2>2. d # c
    BY <1>1, <1>2, <2>1, QueueOfNone DEF MailTypes, Coming
  <2>3. w.op = "PLAYER_LOAD" => playing' = d
    BY <1>2, <2>1, <2>2 DEF InOK
  <2>4. shop.owner = [core |-> d, desc |-> w.desc] => shop' = shop
    <3>1. shop.owner = [core |-> d, desc |-> w.desc] => shop.owner.core = d
      OBVIOUS
    <3>. QED BY <1>4, <2>2, <3>1
  <2>. QED BY <1>2, <1>3, <1>4, <1>5, <2>1, <2>3, <2>4 DEF InOK, LoadComes, Pending, client, core
<1>14. BindInv'
  <2>1. \A d, k : (Hears(d, k)' <=> Hears(d, k)) /\ (LogsOut(d, k)' <=> LogsOut(d, k))
    <3>1. in' = in /\ out' = out /\ pend' = pend
      BY <1>2 DEF core
    <3>. QED BY <3>1 DEF Hears, LoadComes, Accepts, Coming, LogsOut, Sent
  <2>2. shop' # shop => shop'.owner.core \notin up /\ shop.owner # here
    BY <1>1, <1>4, <1>6, BuildAssumption DEF Away, CoreTypes
  <2>. QED BY <1>1, <1>2, <1>4, <1>5, <2>1, <2>2 DEF BindInv, client, core
<1>. QED BY <1>7, <1>8, <1>9, <1>10, <1>11, <1>12, <1>13, <1>14 DEF BuildInv

\* Queries of sessions.
LEMMA LoadsAppend ==
    ASSUME NEW q \in Seq(Session), NEW s \in Session
    PROVE  /\ Append(q, s) \in Seq(Session) /\ Append(q, s) # <<>> /\ Last(Append(q, s)) = s
           /\ \A n \in 1 .. Len(Append(q, s)) : (n \in 1 .. Len(q) /\ Append(q, s)[n] = q[n]) \/ Append(q, s)[n] = s
<1> DEFINE r == Append(q, s)
<1>1. /\ r \in Seq(Session) /\ Len(r) = Len(q) + 1 /\ Len(q) \in Nat /\ r[Len(q) + 1] = s
      /\ \A n \in 1 .. Len(q) : r[n] = q[n]
  OBVIOUS
<1> HIDE DEF r
<1>2. r # <<>>
  BY <1>1
<1>3. Last(r) = s
  BY <1>1 DEF Last
<1>4. \A n \in 1 .. Len(r) : (n \in 1 .. Len(q) /\ r[n] = q[n]) \/ r[n] = s
  <2> TAKE n \in 1 .. Len(r)
  <2>1. n \in 1 .. Len(q) \/ n = Len(q) + 1
    BY <1>1
  <2>. QED BY <1>1, <2>1
<1>. QED BY <1>1, <1>2, <1>3, <1>4 DEF r

LEMMA LoadsTail ==
    ASSUME NEW q \in Seq(Session), q # <<>>
    PROVE  /\ Tail(q) \in Seq(Session) /\ Head(q) \in Session /\ \E n \in 1 .. Len(q) : Head(q) = q[n]
           /\ \A n \in 1 .. Len(Tail(q)) : \E k \in 1 .. Len(q) : Tail(q)[n] = q[k]
           /\ IF Tail(q) = <<>> THEN Last(q) = Head(q) ELSE Last(q) = Last(Tail(q))
<1> DEFINE t == Tail(q)
<1>1. /\ t \in Seq(Session) /\ Len(t) = Len(q) - 1 /\ Len(q) \in Nat /\ Len(q) > 0 /\ Head(q) = q[1] /\ Head(q) \in Session
      /\ \A n \in 1 .. Len(q) - 1 : t[n] = q[n + 1] /\ n + 1 \in 1 .. Len(q)
  OBVIOUS
<1> HIDE DEF t
<1>2. t = <<>> <=> Len(t) = 0
  BY <1>1
<1>3. CASE t = <<>>
  BY <1>1, <1>2, <1>3 DEF Last, t
<1>4. CASE t # <<>>
  <2>1. Len(t) \in 1 .. Len(q) - 1 /\ Len(t) + 1 = Len(q)
    BY <1>1, <1>2, <1>4
  <2>2. Last(q) = Last(t)
    BY <1>1, <2>1 DEF Last
  <2>3. 1 \in 1 .. Len(q)
    BY <1>1
  <2>. QED BY <1>1, <1>4, <2>2, <2>3 DEF t
<1>. QED BY <1>3, <1>4

\* A session begins: its character is loaded, its shop asked for.
LEMMA PlayerLoadAskedKeeps ==
    ASSUME BuildInv, NEW c \in Cores, QUERY_PLAYER_LOAD(c)
    PROVE  BuildInv'
<1>1. /\ BuildTypeOK /\ ClientTypes /\ CoreTypes /\ DatabaseTypes /\ MailTypes
      /\ OutOrder /\ InOrder /\ HereInv /\ CoreInv /\ OutInv /\ InInv /\ BindInv
  BY DEF BuildInv, BuildTypeOK
<1> DEFINE a == [op |-> "PLAYER_LOAD", desc |-> last + 1, items |-> {i \in Items : row[i] = "owner"}, bundles |-> bundleRow]
           s == [core |-> c, desc |-> last + 1]
<1>2. /\ playing = NoCore /\ c \in peers /\ c \in up /\ playing' = c /\ last' = last + 1 /\ last \in Nat
      /\ loads' = Append(loads, s) /\ Tell(c, a)
      /\ UNCHANGED <<client, core, peers, row, bundleRow, shop, out>>
  BY <1>1 DEF QUERY_PLAYER_LOAD, DatabaseTypes
<1>3. /\ a \in InMsgs /\ a.op = "PLAYER_LOAD" /\ a.desc = last + 1 /\ a.items = {i \in Items : row[i] = "owner"}
      /\ s \in Session /\ s.core = c /\ s.desc = last + 1 /\ s = [core |-> c, desc |-> a.desc]
  BY <1>1, <1>2 DEF InMsgs, Session, DatabaseTypes
<1> HIDE DEF a, s
<1>4. /\ in' \in [Cores -> Seq(InMsgs)] /\ \A d \in Cores \ up : in'[d] = <<>>
      /\ \A d \in Cores : \A w : w \in Coming(d)' <=> w \in Coming(d) \/ (d = c /\ c \in up /\ w = a)
      /\ \A d, k : LoadComes(d, k) /\ d \in Cores => LoadComes(d, k)'
      /\ \A d : Accepts(d) /\ d \in Cores => Accepts(d)'
  BY <1>2, <1>3, ToldIs
<1>5. /\ loads' \in Seq(Session) /\ loads' # <<>> /\ Last(loads') = s
      /\ \A n \in 1 .. Len(loads') : (n \in 1 .. Len(loads) /\ loads'[n] = loads[n]) \/ loads'[n] = s
  BY <1>1, <1>2, <1>3, LoadsAppend DEF DatabaseTypes
<1>6. here = Away /\ \A d \in Cores : playing # d
  BY <1>1, <1>2, HereIs, BuildAssumption DEF HereInv
<1>7. \A d \in Cores : \A w \in Sent(d) : OutOK(d, w) /\ ~Own(w)
  BY <1>1, <1>6 DEF OutInv, OutOK
<1>8. \A d \in Cores : \A w \in Coming(d) : InOK(d, w) /\ w.op # "PLAYER_LOAD"
  BY <1>1, <1>6 DEF InInv, InOK
<1>9. BuildTypeOK'
  BY <1>1, <1>2, <1>4, <1>5 DEF BuildTypeOK, ClientTypes, CoreTypes, DatabaseTypes, MailTypes, client, core
<1>10. OnePlace' /\ HeldWhilePending'
  BY <1>2 DEF BuildInv, OnePlace, HeldWhilePending, client, core
<1>11. OutOrder'
  BY <1>1, <1>2 DEF OutOrder
<1>12. InOrder'
  <2>1. ASSUME NEW w \in Coming(c) PROVE MayAnswer(w, a)
    <3>1. w.op = "LOAD" => w.desc \in 1 .. last
      BY <1>8, <2>1 DEF InOK
    <3>2. w.op = "LOAD" => w.desc # a.desc
      BY <1>2, <1>3, <3>1
    <3>. QED BY <1>3, <1>8, <2>1, <3>2 DEF MayAnswer
  <2>. QED BY <1>1, <1>2, <1>3, <2>1, TellInOrder
<1>13. HereInv'
  <2>1. /\ here' = here /\ bag' = bag /\ locked' = locked /\ skip' = skip /\ dirty' = dirty /\ panel' = panel
    BY <1>2 DEF client
  <2>. QED BY <1>1, <1>6, <2>1 DEF HereInv
<1>14. CoreInv'
  <2> SUFFICES ASSUME NEW d \in Cores PROVE CoreOK(d)'
    BY DEF CoreInv
  <2>1. CoreOK(d) /\ pend[d].desc \in Nat
    BY <1>1, PendIs DEF CoreInv
  <2>2. \A k : k \in 1 .. last => k \in 1 .. last'
    BY <1>2
  <2>3. Sent(d)' = Sent(d)
    BY <1>2 DEF Sent
  <2>. QED BY <1>2, <1>4, <2>1, <2>2, <2>3 DEF CoreOK, core, Pending
<1>15. OutInv'
  <2> SUFFICES ASSUME NEW d \in Cores, NEW w \in Sent(d)' PROVE OutOK(d, w)'
    BY DEF OutInv
  <2>1. OutOK(d, w) /\ ~Own(w)
    BY <1>2, <1>7 DEF Sent
  <2>2. w.op = "LOGOUT" => w.desc \in 1 .. last' /\ w.desc # a.desc
    BY <1>2, <1>3, <2>1 DEF OutOK
  <2>3. w.op = "LOGOUT" => \A x \in Coming(d)' : x.op = "PLAYER_LOAD" => x.desc # w.desc
    BY <1>4, <1>8, <2>2
  <2>. QED BY <1>2, <2>1, <2>2, <2>3 DEF OutOK, IsHere, Own, client, core
<1>16. InInv'
  <2> SUFFICES ASSUME NEW d \in Cores, NEW w \in Coming(d)' PROVE InOK(d, w)'
    BY DEF InInv
  <2>1. CASE w \in Coming(d)
    <3>1. InOK(d, w) /\ w.op # "PLAYER_LOAD"
      BY <1>8, <2>1
    <3>2. \A k : k \in 1 .. last => k \in 1 .. last'
      BY <1>2
    <3>. QED BY <1>2, <3>1, <3>2 DEF InOK, Pending, Exists, core
  <2>2. CASE d = c /\ w = a
    <3>1. playing' = c /\ here' = Away /\ w.op = "PLAYER_LOAD" /\ w.desc \in 1 .. last'
      BY <1>2, <1>3, <1>6, <2>2 DEF client
    <3>2. w.items \cap shop'.items = {}
      BY <1>2, <1>3, <2>2 DEF BuildInv, OnePlace
    <3>3. pend'[c].desc < w.desc
      <4>1. pend[c].desc \in 0 .. last
        BY <1>1, <1>2, PendIs DEF CoreInv, CoreOK
      <4>. QED BY <1>2, <1>3, <2>2, <4>1 DEF core
    <3>4. \A x \in Sent(c)' : ~Own(x)
      BY <1>2, <1>7 DEF Sent
    <3>5. Last(loads') = [core |-> c, desc |-> w.desc] /\ loads' # <<>>
      BY <1>3, <1>5, <2>2
    <3>. QED BY <2>2, <3>1, <3>2, <3>3, <3>4, <3>5 DEF InOK
  <2>. QED BY <1>4, <2>1, <2>2
<1>17. BindInv'
  <2>1. \A d, k : d \in Cores => (Hears(d, k) => Hears(d, k)') /\ (LogsOut(d, k) => LogsOut(d, k)')
    BY <1>2, <1>4 DEF Hears, LogsOut, Sent, core
  <2>2. shop.owner.core \in up => shop.owner.core \in Cores
    BY <1>1 DEF CoreTypes
  <2>3. ASSUME NEW n \in 1 .. Len(loads') PROVE loads'[n].desc \in 1 .. last'
    BY <1>1, <1>2, <1>3, <1>5 DEF BindInv
  <2>4. here' = Away /\ ~panel
    BY <1>1, <1>2, <1>6 DEF client, HereInv
  <2>. QED BY <1>1, <1>2, <2>1, <2>2, <2>3, <2>4 DEF BindInv, client, core
<1>. QED BY <1>9, <1>10, <1>11, <1>12, <1>13, <1>14, <1>15, <1>16, <1>17 DEF BuildInv

\* The result of the shop query binds the session that asked.
LEMMA ShopLoadedKeeps ==
    ASSUME BuildInv, RESULT_PRIVATE_SHOP_LOAD
    PROVE  BuildInv'
<1>1. /\ BuildTypeOK /\ ClientTypes /\ CoreTypes /\ DatabaseTypes /\ MailTypes
      /\ OutOrder /\ InOrder /\ HereInv /\ CoreInv /\ OutInv /\ InInv /\ BindInv
  BY DEF BuildInv, BuildTypeOK
<1>2. PICK q : /\ q = Head(loads) /\ loads # <<>> /\ loads' = Tail(loads)
               /\ IF Exists /\ q.core \in peers
                  THEN shop' = [shop EXCEPT !.owner = q] /\ Tell(q.core, [op |-> "LOAD", desc |-> q.desc])
                  ELSE UNCHANGED <<shop, in>>
               /\ UNCHANGED <<client, core, peers, row, bundleRow, playing, last, out>>
  BY DEF RESULT_PRIVATE_SHOP_LOAD
<1>3. /\ loads' \in Seq(Session) /\ q \in Session /\ q = [core |-> q.core, desc |-> q.desc]
      /\ q.core \in Cores /\ q.desc \in 1 .. last /\ \A n \in 1 .. Len(loads') : loads'[n].desc \in 1 .. last
      /\ IF loads' = <<>> THEN Last(loads) = q ELSE Last(loads) = Last(loads')
  BY <1>1, <1>2, LoadsTail, SessionIs DEF DatabaseTypes, BindInv
<1> DEFINE bound == Exists /\ q.core \in peers
           a == [op |-> "LOAD", desc |-> q.desc]
<1>4. a \in InMsgs /\ a.op = "LOAD" /\ a.desc = q.desc
  BY <1>3, SessionIs DEF InMsgs
<1>5. /\ bound => shop' = [shop EXCEPT !.owner = q] /\ Tell(q.core, a)
      /\ ~bound => shop' = shop /\ in' = in
  BY <1>2
<1> HIDE DEF a
<1>6. /\ shop' \in ShopRecords /\ shop'.items = shop.items /\ shop'.host = shop.host
      /\ bound => shop'.owner = q
      /\ ~bound => shop'.owner = shop.owner
  <2>1. CASE bound
    <3>1. shop \in [items : Stock, host : Cores, owner : Session \cup {Away}]
      BY <1>1, <2>1 DEF DatabaseTypes, Exists, ShopRecords
    <3>. QED BY <1>3, <1>5, <2>1, <3>1 DEF ShopRecords
  <2>2. CASE ~bound
    BY <1>1, <1>5, <2>2 DEF DatabaseTypes
  <2>. QED BY <2>1, <2>2
<1>7. Exists' = Exists
  BY <1>1, <1>6, ShopValue DEF Exists, DatabaseTypes
<1>8. /\ in' \in [Cores -> Seq(InMsgs)] /\ \A d \in Cores \ up : in'[d] = <<>>
      /\ \A d \in Cores : \A w : w \in Coming(d)' <=> w \in Coming(d) \/ (bound /\ d = q.core /\ d \in up /\ w = a)
      /\ \A d, k : LoadComes(d, k) /\ d \in Cores => LoadComes(d, k)'
      /\ \A d : Accepts(d) /\ d \in Cores => Accepts(d)'
  <2>1. CASE bound
    BY <1>3, <1>4, <1>5, <2>1, ToldIs
  <2>2. CASE ~bound
    BY <1>1, <1>5, <2>2 DEF MailTypes, Coming, LoadComes, Accepts
  <2>. QED BY <2>1, <2>2
<1>9. bound /\ q.core \in up => LoadComes(q.core, q.desc)'
  BY <1>3, <1>4, <1>8 DEF LoadComes
<1> HIDE DEF bound
<1>10. BuildTypeOK'
  BY <1>1, <1>2, <1>3, <1>6, <1>8 DEF BuildTypeOK, ClientTypes, CoreTypes, DatabaseTypes, MailTypes, client, core
<1>11. OnePlace' /\ HeldWhilePending'
  BY <1>2, <1>6 DEF BuildInv, OnePlace, HeldWhilePending, client, core
<1>12. OutOrder' /\ InOrder'
  <2>1. OutOrder'
    BY <1>1, <1>2 DEF OutOrder
  <2>2. CASE bound
    <3>1. \A w \in Coming(q.core) : MayAnswer(w, a)
      BY <1>4 DEF MayAnswer
    <3>. QED BY <1>1, <1>3, <1>4, <1>5, <2>1, <2>2, <3>1, TellInOrder
  <2>3. CASE ~bound
    BY <1>1, <1>5, <2>1, <2>3 DEF InOrder
  <2>. QED BY <2>2, <2>3
<1>13. HereInv'
  <2>1. /\ here' = here /\ bag' = bag /\ locked' = locked /\ skip' = skip /\ dirty' = dirty /\ panel' = panel
        /\ pend' = pend /\ up' = up /\ playing' = playing /\ last' = last
    BY <1>2 DEF client, core
  <2>2. here # Away => here.core \in Cores
    BY <1>1, HereIs
  <2>3. \A d : Pending(d)' = Pending(d)
    BY <2>1 DEF Pending
  <2>. QED BY <1>1, <1>6, <1>7, <1>8, <2>1, <2>2, <2>3 DEF HereInv
<1>14. CoreInv'
  <2> SUFFICES ASSUME NEW d \in Cores PROVE CoreOK(d)'
    BY DEF CoreInv
  <2>1. CoreOK(d) /\ Sent(d)' = Sent(d)
    BY <1>1, <1>2 DEF CoreInv, Sent
  <2>. QED BY <1>2, <1>6, <1>8, <2>1 DEF CoreOK, core, Pending
<1>15. OutInv'
  <2> SUFFICES ASSUME NEW d \in Cores, NEW w \in Sent(d)' PROVE OutOK(d, w)'
    BY DEF OutInv
  <2>1. OutOK(d, w)
    BY <1>1, <1>2 DEF OutInv, Sent
  <2>2. \A x \in Coming(d)' : x \in Coming(d) \/ x.op = "LOAD"
    BY <1>4, <1>8
  <2>. QED BY <1>2, <1>6, <2>1, <2>2 DEF OutOK, IsHere, client, core
<1>16. InInv'
  <2> SUFFICES ASSUME NEW d \in Cores, NEW w \in Coming(d)' PROVE InOK(d, w)'
    BY DEF InInv
  <2>1. CASE w \in Coming(d)
    <3>1. InOK(d, w) /\ d \in peers
      BY <1>1, <2>1, QueueOfNone DEF InInv, MailTypes, CoreTypes, Coming
    <3>2. Sent(d)' = Sent(d)
      BY <1>2 DEF Sent
    <3>3. w.op = "PLAYER_LOAD" => Last(loads) = [core |-> d, desc |-> w.desc]
      BY <1>2, <3>1 DEF InOK
    <3>4. w.op = "PLAYER_LOAD" /\ loads' # <<>> => Last(loads') = [core |-> d, desc |-> w.desc]
      BY <1>3, <3>3
    <3>5. w.op = "PLAYER_LOAD" /\ Exists /\ loads' = <<>> =>
            shop'.owner = [core |-> d, desc |-> w.desc] /\ LoadComes(d, w.desc)'
      <4> SUFFICES ASSUME w.op = "PLAYER_LOAD", Exists, loads' = <<>>
                   PROVE  shop'.owner = [core |-> d, desc |-> w.desc] /\ LoadComes(d, w.desc)'
        OBVIOUS
      <4>1. q = [core |-> d, desc |-> w.desc]
        BY <1>3, <3>3
      <4>2. q.core = d /\ q.desc = w.desc
        BY <4>1
      <4>3. bound /\ d \in up
        BY <1>1, <2>1, <3>1, <4>2, QueueOfNone DEF bound, MailTypes, Coming
      <4>. QED BY <1>6, <1>9, <4>1, <4>2, <4>3
    <3>. QED BY <1>2, <1>6, <1>7, <3>1, <3>2, <3>4, <3>5 DEF InOK, Pending, client, core
  <2>2. CASE bound /\ w = a
    BY <1>2, <1>3, <1>4, <1>7, <2>2 DEF InOK, bound
  <2>. QED BY <1>8, <2>1, <2>2
<1>17. BindInv'
  <2>1. \A d, k : d \in Cores => (Hears(d, k) => Hears(d, k)') /\ (LogsOut(d, k) => LogsOut(d, k)')
    BY <1>2, <1>8 DEF Hears, LogsOut, Sent, core
  <2>2. (shop.owner.core \in up =>
          \/ here = shop.owner /\ panel
          \/ LogsOut(shop.owner.core, shop.owner.desc)
          \/ Hears(shop.owner.core, shop.owner.desc))'
    <3>1. up' = up /\ here' = here /\ panel' = panel
      BY <1>2 DEF client, core
    <3>2. CASE bound
      <4>1. q.core \in up => LoadComes(q.core, q.desc)'
        BY <1>9, <3>2
      <4>. QED BY <1>6, <3>1, <3>2, <4>1 DEF Hears
    <3>3. CASE ~bound
      <4>1. shop.owner.core \in up => shop.owner.core \in Cores
        BY <1>1 DEF CoreTypes
      <4>. QED BY <1>1, <1>6, <2>1, <3>1, <3>3, <4>1 DEF BindInv
    <3>. QED BY <3>2, <3>3
  <2>3. (here # Away =>
          /\ loads # <<>> => Last(loads) = here
          /\ Exists /\ loads = <<>> => shop.owner = here /\ Hears(here.core, here.desc))'
    <3>1. here' = here /\ up' = up
      BY <1>2 DEF client, core
    <3>2. ASSUME here # Away PROVE Last(loads) = here /\ here.core \in up /\ here.core \in peers
      BY <1>1, <1>2, <3>2 DEF BindInv, HereInv, CoreTypes
    <3>3. ASSUME here # Away, loads' # <<>> PROVE Last(loads') = here
      BY <1>3, <3>2, <3>3
    <3>4. ASSUME here # Away, Exists, loads' = <<>> PROVE shop'.owner = here /\ LoadComes(here.core, here.desc)'
      <4>1. q = here /\ bound /\ q.core \in up
        BY <1>3, <3>2, <3>4 DEF bound
      <4>. QED BY <1>6, <1>9, <3>1, <4>1
    <3>. QED BY <1>7, <3>1, <3>3, <3>4 DEF Hears, Away
  <2>4. \A n \in 1 .. Len(loads') : loads'[n].desc \in 1 .. last'
    BY <1>2, <1>3
  <2>. QED BY <1>7, <2>2, <2>3, <2>4 DEF BindInv
<1>. QED BY <1>10, <1>11, <1>12, <1>13, <1>14, <1>15, <1>16, <1>17 DEF BuildInv

\* The owner's items are changed, given away and saved.
LEMMA ItemsKeep ==
    ASSUME BuildInv, Update \/ \E i \in Items : Change(i) \/ Give(i)
    PROVE  BuildInv'
<1>1. /\ BuildTypeOK /\ ClientTypes /\ MailTypes /\ HereInv /\ OnePlace
      /\ here # Away => here.core \in Cores /\ locked = skip
  BY LockedIs DEF BuildInv, BuildTypeOK
<1>2. ASSUME NEW i \in Items, Change(i) PROVE BuildInv'
  <2>1. here # Away /\ here.core \in Cores /\ out[here.core] \in Seq(OutMsgs) /\ out \in [Cores -> Seq(OutMsgs)]
    BY <1>1, <1>2 DEF Change, HereInv, MailTypes
  <2>2. out[here.core] \o <<>> = out[here.core]
    BY <2>1
  <2>3. Send(here.core, <<>>)
    BY <1>2, <2>1, <2>2 DEF Change, Send
  <2>4. <<>> \in Seq(OutMsgs) /\ Range(<<>>) = {}
    BY QueueOfNone
  <2>5. dirty' \subseteq bag \cup {Bundle} /\ dirty' \cap skip = {} /\ bag' = bag
    BY <1>1, <1>2 DEF Change, Dirtied, HereInv
  <2>. QED BY <1>2, <2>1, <2>3, <2>4, <2>5, ClientSends DEF Change
<1>3. ASSUME NEW i \in Items, Give(i) PROVE BuildInv'
  <2> DEFINE w == [op |-> "ITEM_SAVE", item |-> i, who |-> "other", count |-> 1]
  <2>1. here # Away /\ here.core \in Cores /\ i \notin locked /\ i \notin shop.items
    BY <1>1, <1>3 DEF Give, MayGive, HereInv, OnePlace
  <2>2. w \in OutMsgs /\ w.op = "ITEM_SAVE" /\ w.item = i /\ Send(here.core, <<w>>)
    BY <1>3 DEF OutMsgs, Give
  <2> HIDE DEF w
  <2>3. <<w>> \in Seq(OutMsgs) /\ Range(<<w>>) = {w}
    BY <2>2, QueueOfOne
  <2>4. bag' \subseteq bag /\ dirty' \subseteq bag' \cup {Bundle} /\ dirty' \cap skip = {}
    BY <1>1, <1>3 DEF Give, HereInv
  <2>5. UNCHANGED <<here, locked, skip, stack, panel, core, database, in>>
    BY <1>3 DEF Give
  <2>. QED BY <2>1, <2>2, <2>3, <2>4, <2>5, ClientSends
<1>4. CASE Update
  <2>1. here # Away /\ here.core \in Cores /\ dirty \subseteq Items \cup {Bundle}
    BY <1>1, <1>4 DEF Update, HereInv, ClientTypes
  <2>2. /\ Saves(dirty) \in Seq(OutMsgs)
        /\ \A m \in Range(Saves(dirty)) : m.op = "ITEM_SAVE" /\ m.item \in dirty
    BY <1>1, <2>1, SavesAre
  <2>3. \A x \in dirty : x \notin locked /\ x \notin shop.items
    <3>1. Bundle \notin locked /\ Bundle \notin shop.items
      BY <1>1, ShopIs, BuildAssumption DEF BuildInv, BuildTypeOK, ClientTypes
    <3>. QED BY <1>1, <2>1, <3>1 DEF HereInv, OnePlace
  <2>4. Send(here.core, Saves(dirty)) /\ dirty' = {} /\ bag' = bag
    BY <1>4 DEF Update
  <2>5. UNCHANGED <<here, locked, skip, stack, panel, core, database, in>>
    BY <1>4 DEF Update
  <2>. QED BY <2>1, <2>2, <2>3, <2>4, <2>5, ClientSends
<1>. QED BY <1>2, <1>3, <1>4

-----------------------------------------------------------------------------
\* A core takes a message off its connection from the DB process.
Reads(c, m) ==
    /\ c \in up /\ in[c] # <<>> /\ m = Head(in[c]) /\ in' = [in EXCEPT ![c] = Tail(@)]
    /\ UNCHANGED database

LEMMA ReadsIs ==
    ASSUME BuildInv, NEW c \in Cores, NEW m, Reads(c, m)
    PROVE  /\ m \in InMsgs /\ m \in Coming(c) /\ InOK(c, m) /\ InOrder' /\ DatabaseTypes'
           /\ in' \in [Cores -> Seq(InMsgs)] /\ \A d \in Cores \ up : in'[d] = <<>>
           /\ \A d \in Cores : \A w : /\ w \in Coming(d)' => w \in Coming(d) /\ InOK(d, w)
                                      /\ w \in Coming(d) => w \in Coming(d)' \/ (d = c /\ w = m)
           /\ \A w \in Coming(c)' : MayAnswer(m, w)
           /\ \A d, k : d \in Cores /\ LoadComes(d, k) => LoadComes(d, k)' \/ (d = c /\ m.op = "LOAD" /\ m.desc = k)
           /\ \A d : d \in Cores /\ Accepts(d) => Accepts(d)' \/ (d = c /\ m.op = "CREATE_RESULT" /\ m.ok)
<1>1. MailTypes /\ InOrder /\ InInv /\ DatabaseTypes
  BY DEF BuildInv, BuildTypeOK
<1>2. /\ in' \in [Cores -> Seq(InMsgs)] /\ m \in InMsgs /\ \A d \in Cores : d # c => in'[d] = in[d]
      /\ Coming(c) = {m} \cup Coming(c)'
  BY <1>1, ReadIs DEF Reads, Coming
<1>3. InOrder' /\ \A w \in Coming(c)' : MayAnswer(m, w)
  BY <1>1, ReadInOrder DEF Reads, Coming
<1>4. DatabaseTypes'
  BY <1>1 DEF DatabaseTypes, Reads, database
<1>5. ASSUME NEW d \in Cores, NEW w
      PROVE  /\ w \in Coming(d)' => w \in Coming(d) /\ InOK(d, w)
             /\ w \in Coming(d) => w \in Coming(d)' \/ (d = c /\ w = m)
  <2>1. CASE d = c
    BY <1>1, <1>2, <2>1 DEF InInv
  <2>2. CASE d # c
    BY <1>1, <1>2, <2>2 DEF InInv, Coming
  <2>. QED BY <2>1, <2>2
<1>6. ASSUME NEW d \in Cores, NEW k, LoadComes(d, k)
      PROVE  LoadComes(d, k)' \/ (d = c /\ m.op = "LOAD" /\ m.desc = k)
  BY <1>5, <1>6 DEF LoadComes
<1>7. ASSUME NEW d \in Cores, Accepts(d)
      PROVE  Accepts(d)' \/ (d = c /\ m.op = "CREATE_RESULT" /\ m.ok)
  BY <1>5, <1>7 DEF Accepts
<1>8. m \in Coming(c) /\ InOK(c, m) /\ \A d \in Cores \ up : in'[d] = <<>>
  BY <1>1, <1>2 DEF InInv, MailTypes, Reads
<1>. QED BY <1>2, <1>3, <1>4, <1>5, <1>6, <1>7, <1>8

\* The answer to a build finds it pending, and is the only one.
LEMMA ResultIs ==
    ASSUME BuildInv, NEW c \in Cores, NEW m, Reads(c, m), m.op = "CREATE_RESULT"
    PROVE  /\ Pending(c) /\ Exists /\ m.ok \in BOOLEAN
           /\ m.ok => shop.host = c /\ shop.items = pend[c].items
           /\ ~m.ok => shop.host # c /\ ~Accepts(c)
           /\ \A w \in Coming(c)' : w.op # "CREATE_RESULT"
           /\ \A w \in Sent(c) : w.op # "CREATE"
           /\ pend[c].items \subseteq Items /\ pend[c].desc \in 1 .. last
           /\ here.core = c => Online(c)
<1>1. /\ BuildTypeOK /\ ClientTypes /\ CoreTypes /\ DatabaseTypes /\ MailTypes
      /\ HereInv /\ CoreInv /\ OutInv /\ InInv
  BY DEF BuildInv, BuildTypeOK
<1>2. /\ m \in InMsgs /\ m \in Coming(c) /\ InOK(c, m) /\ \A w \in Coming(c)' : MayAnswer(m, w)
  BY ReadsIs
<1>3. /\ Pending(c) /\ Exists /\ m.ok \in BOOLEAN
      /\ m.ok => shop.host = c /\ shop.items = pend[c].items
      /\ ~m.ok => shop.host # c
  BY <1>2, InFields DEF InOK
<1>4. ~m.ok => ~Accepts(c)
  BY <1>1, <1>3 DEF Accepts, InInv, InOK
<1>5. \A w \in Coming(c)' : w.op # "CREATE_RESULT"
  BY <1>2 DEF MayAnswer
<1>6. \A w \in Sent(c) : w.op # "CREATE"
  BY <1>1, <1>2 DEF OutInv, OutOK, Reads
<1>7. pend[c].items \subseteq Items /\ pend[c].desc \in 1 .. last
  BY <1>1, <1>3, PendIs DEF CoreInv, CoreOK
<1>8. here.core = c => Online(c)
  <2>1. here.core = c => here # Away /\ here = [core |-> c, desc |-> here.desc]
    BY <1>1, HereIs, SessionIs
  <2>. QED BY <1>1, <1>3, <2>1 DEF HereInv, Online
<1>. QED BY <1>3, <1>4, <1>5, <1>6, <1>7, <1>8

\* The answer to a build reaches the one who asked.
LEMMA ResultHereKeeps ==
    ASSUME BuildInv, NEW c \in Cores, NEW m, Reads(c, m), BuildPrivateShopResult(c, m), Online(c)
    PROVE  BuildInv'
<1>1. /\ BuildTypeOK /\ ClientTypes /\ CoreTypes /\ DatabaseTypes /\ MailTypes /\ OnePlace
      /\ OutOrder /\ InOrder /\ HereInv /\ CoreInv /\ OutInv /\ InInv /\ BindInv
  BY DEF BuildInv, BuildTypeOK
<1>2. /\ Pending(c) /\ Exists /\ m.op = "CREATE_RESULT"
      /\ m.ok => shop.host = c /\ shop.items = pend[c].items
      /\ ~m.ok => shop.host # c /\ ~Accepts(c)
      /\ \A w \in Coming(c)' : w.op # "CREATE_RESULT"
      /\ \A w \in Sent(c) : w.op # "CREATE"
      /\ pend[c].items \subseteq Items /\ pend[c].desc \in 1 .. last
  BY ResultIs DEF BuildPrivateShopResult
<1>3. /\ m \in InMsgs /\ m \in Coming(c) /\ InOrder' /\ DatabaseTypes'
      /\ in' \in [Cores -> Seq(InMsgs)] /\ \A d \in Cores \ up : in'[d] = <<>>
      /\ \A d \in Cores : \A w : /\ w \in Coming(d)' => w \in Coming(d) /\ InOK(d, w)
                                 /\ w \in Coming(d) => w \in Coming(d)' \/ (d = c /\ w = m)
      /\ \A d, k : d \in Cores /\ LoadComes(d, k) => LoadComes(d, k)'
      /\ \A d : d \in Cores /\ Accepts(d) => Accepts(d)' \/ (d = c /\ m.ok)
  BY <1>2, ReadsIs
<1>4. /\ here # Away /\ here.core = c /\ here.desc = pend[c].desc /\ locked = pend[c].items /\ skip = pend[c].items
  <2>1. here = [core |-> c, desc |-> pend[c].desc]
    BY DEF Online
  <2>2. here.core = c /\ here.desc = pend[c].desc
    BY <2>1
  <2>. QED BY <1>1, <2>2, HereIs, LockedIs
<1>5. /\ UNCHANGED <<here, up, out, database>> /\ locked' = {} /\ skip' = {}
      /\ stall' = [stall EXCEPT ![c] = IF m.ok THEN pend[c].items ELSE NoStall]
      /\ pend' = [pend EXCEPT ![c] = NoPend]
      /\ m.ok => bag' = bag \ pend[c].items /\ panel' = TRUE /\ stack' = stack /\ dirty' = dirty
      /\ ~m.ok => bag' = bag /\ panel' = panel /\ stack' = stack + 1 /\ dirty' = dirty \cup {Bundle}
  <2>1. locked' = Unlocked(m) /\ skip' = skip \ pend[c].items
    BY <1>2 DEF BuildPrivateShopResult
  <2>2. locked' = {} /\ skip' = {}
    BY <1>4, <2>1 DEF Unlocked
  <2>. QED BY <1>2, <2>2 DEF BuildPrivateShopResult, Reads
<1>6. \A d \in Cores : /\ d # c => pend'[d] = pend[d] /\ stall'[d] = stall[d] /\ (Pending(d)' <=> Pending(d))
                       /\ Sent(d)' = Sent(d)
  BY <1>1, <1>5 DEF CoreTypes, Pending, Sent
<1>7. pend'[c] = NoPend /\ ~Pending(c)' /\ stall'[c] = (IF m.ok THEN pend[c].items ELSE NoStall)
  BY <1>1, <1>5 DEF CoreTypes, Pending
<1>8. BuildTypeOK'
  <2>1. ClientTypes'
    <3>1. CASE m.ok
      BY <1>1, <1>5, <3>1 DEF ClientTypes
    <3>2. CASE ~m.ok
      BY <1>1, <1>5, <3>2 DEF ClientTypes
    <3>. QED BY <3>1, <3>2
  <2>2. CoreTypes'
    <3>1. pend' \in [Cores -> PendRecords]
      BY <1>1, <1>5 DEF CoreTypes, PendRecords
    <3>2. stall' \in [Cores -> (SUBSET Items) \cup {NoStall}]
      BY <1>1, <1>2, <1>5 DEF CoreTypes
    <3>. QED BY <1>1, <1>5, <3>1, <3>2 DEF CoreTypes, database
  <2>3. MailTypes'
    <3>1. \A d \in Cores \ up : in'[d] = <<>> /\ pend'[d] = NoPend
      BY <1>1, <1>3, <1>6, <1>7 DEF MailTypes
    <3>. QED BY <1>1, <1>3, <1>5, <3>1 DEF MailTypes
  <2>. QED BY <1>3, <2>1, <2>2, <2>3 DEF BuildTypeOK
<1>9. bag' \cap shop.items = {}
  <2>1. CASE m.ok
    BY <1>2, <1>5, <2>1
  <2>2. CASE ~m.ok
    BY <1>1, <1>2, <1>4, <1>5, <2>2 DEF HereInv
  <2>. QED BY <2>1, <2>2
<1>10. OnePlace'
  BY <1>1, <1>5, <1>9 DEF OnePlace, database
<1>11. HeldWhilePending'
  BY <1>5, <1>7, <1>4 DEF HeldWhilePending, NoPend
<1>12. OutOrder'
  BY <1>1, <1>5 DEF OutOrder
<1>13. HereInv'
  <2>1. here' = here /\ playing' = playing /\ up' = up /\ last' = last /\ shop' = shop
    BY <1>5 DEF database
  <2>2. dirty' \subseteq bag' \cup {Bundle}
    <3>1. CASE m.ok
      BY <1>1, <1>4, <1>5, <3>1 DEF HereInv
    <3>2. CASE ~m.ok
      BY <1>1, <1>5, <3>2 DEF HereInv
    <3>. QED BY <3>1, <3>2
  <2>. QED BY <1>1, <1>2, <1>4, <1>5, <1>7, <1>9, <2>1, <2>2 DEF HereInv, Exists, Away
<1>14. CoreInv'
  <2> SUFFICES ASSUME NEW d \in Cores PROVE CoreOK(d)'
    BY DEF CoreInv
  <2>1. CASE d = c
    BY <1>2, <1>5, <1>7, <2>1 DEF CoreOK, database
  <2>2. CASE d # c
    <3>1. CoreOK(d) /\ Coming(d) \subseteq Coming(d)'
      BY <1>1, <1>3, <2>2 DEF CoreInv
    <3>. QED BY <1>5, <1>6, <2>2, <3>1 DEF CoreOK, database
  <2>. QED BY <2>1, <2>2
<1>15. OutInv'
  <2> SUFFICES ASSUME NEW d \in Cores, NEW w \in Sent(d)' PROVE OutOK(d, w)'
    BY DEF OutInv
  <2>1. OutOK(d, w) /\ w \in Sent(d)
    BY <1>1, <1>6 DEF OutInv
  <2>2. w.op = "CREATE" => d # c
    BY <1>2, <2>1
  <2>. QED BY <1>3, <1>5, <1>6, <2>1, <2>2 DEF OutOK, IsHere, database
<1>16. InInv'
  <2> SUFFICES ASSUME NEW d \in Cores, NEW w \in Coming(d)' PROVE InOK(d, w)'
    BY DEF InInv
  <2>1. InOK(d, w)
    BY <1>3
  <2>2. w.op # "PLAYER_LOAD" /\ (w.op = "CREATE_RESULT" => d # c)
    BY <1>2, <1>4, <2>1 DEF InOK
  <2>. QED BY <1>5, <1>6, <2>1, <2>2 DEF InOK, Exists, database
<1>17. BindInv'
  <2>1. here' = here /\ shop' = shop /\ loads' = loads /\ last' = last /\ up' = up /\ Exists' /\ Away' = Away
    BY <1>2, <1>5 DEF database, Exists, Away
  <2>2. panel => panel'
    BY <1>5
  <2>3. ASSUME NEW d \in Cores, NEW k, Hears(d, k) PROVE Hears(d, k)' \/ (d = c /\ k = here.desc /\ panel')
    <3>1. CASE LoadComes(d, k)
      BY <1>3, <3>1 DEF Hears
    <3>2. CASE pend[d].desc = k /\ Accepts(d)
      <4>1. CASE d # c
        BY <1>3, <1>6, <3>2, <4>1 DEF Hears
      <4>2. CASE d = c
        BY <1>2, <1>4, <1>5, <3>2, <4>2
      <4>. QED BY <4>1, <4>2
    <3>. QED BY <2>3, <3>1, <3>2 DEF Hears
  <2>4. ASSUME NEW d \in Cores, NEW k, LogsOut(d, k) PROVE LogsOut(d, k)'
    BY <1>6, <2>4 DEF LogsOut
  <2>5. shop.owner.core = c /\ shop.owner.desc = here.desc => here = shop.owner
    <3>1. shop.owner.core = c => shop.owner = [core |-> shop.owner.core, desc |-> shop.owner.desc]
      BY <1>1, ShopIs, SessionIs
    <3>2. here = [core |-> here.core, desc |-> here.desc]
      BY <1>1, <1>4, HereIs, SessionIs
    <3>. QED BY <1>4, <3>1, <3>2
  <2>6. shop.owner.core \in up => shop.owner.core \in Cores
    BY <1>1 DEF CoreTypes
  <2>7. (shop.owner.core \in up =>
           \/ here = shop.owner /\ panel
           \/ LogsOut(shop.owner.core, shop.owner.desc)
           \/ Hears(shop.owner.core, shop.owner.desc))'
    BY <1>1, <2>1, <2>2, <2>3, <2>4, <2>5, <2>6 DEF BindInv
  <2>8. (here # Away =>
           /\ loads # <<>> => Last(loads) = here
           /\ Exists /\ loads = <<>> => shop.owner = here /\ (panel \/ Hears(here.core, here.desc)))'
    BY <1>1, <1>2, <1>4, <2>1, <2>2, <2>3 DEF BindInv
  <2>. QED BY <1>1, <2>1, <2>7, <2>8 DEF BindInv
<1>. QED BY <1>3, <1>8, <1>10, <1>11, <1>12, <1>13, <1>14, <1>15, <1>16, <1>17 DEF BuildInv

\* The answer to a build finds its owner gone.
LEMMA ResultAwayKeeps ==
    ASSUME BuildInv, NEW c \in Cores, NEW m, Reads(c, m), BuildPrivateShopResult(c, m), ~Online(c)
    PROVE  BuildInv'
<1>1. /\ BuildTypeOK /\ ClientTypes /\ CoreTypes /\ DatabaseTypes /\ MailTypes /\ OnePlace /\ HeldWhilePending
      /\ OutOrder /\ InOrder /\ HereInv /\ CoreInv /\ OutInv /\ InInv /\ BindInv
  BY DEF BuildInv, BuildTypeOK
<1>2. /\ Pending(c) /\ Exists /\ m.op = "CREATE_RESULT" /\ m.ok \in BOOLEAN
      /\ m.ok => shop.host = c /\ shop.items = pend[c].items
      /\ ~m.ok => shop.host # c /\ ~Accepts(c)
      /\ \A w \in Coming(c)' : w.op # "CREATE_RESULT"
      /\ \A w \in Sent(c) : w.op # "CREATE"
      /\ pend[c].items \subseteq Items /\ pend[c].desc \in 1 .. last /\ here.core # c
  BY ResultIs DEF BuildPrivateShopResult
<1>3. /\ m \in InMsgs /\ m \in Coming(c) /\ InOrder' /\ DatabaseTypes'
      /\ in' \in [Cores -> Seq(InMsgs)] /\ \A d \in Cores \ up : in'[d] = <<>>
      /\ \A d \in Cores : \A w : /\ w \in Coming(d)' => w \in Coming(d) /\ InOK(d, w)
                                 /\ w \in Coming(d) => w \in Coming(d)' \/ (d = c /\ w = m)
      /\ \A d, k : d \in Cores /\ LoadComes(d, k) => LoadComes(d, k)'
      /\ \A d : d \in Cores /\ Accepts(d) => Accepts(d)' \/ (d = c /\ m.ok)
  BY <1>2, ReadsIs
<1> DEFINE z == IF m.ok THEN [op |-> "LOGOUT", desc |-> pend[c].desc] ELSE [SaveOf(Bundle) EXCEPT !.count = pend[c].bundle]
<1>4. /\ UNCHANGED <<client, up, database>> /\ Send(c, <<z>>)
      /\ stall' = [stall EXCEPT ![c] = IF m.ok THEN pend[c].items ELSE NoStall]
      /\ pend' = [pend EXCEPT ![c] = NoPend]
  <2>1. Refund(c, m) \o LogoutFor(c, m) = <<z>>
    <3>1. CASE m.ok
      BY <3>1 DEF Refund, LogoutFor
    <3>2. CASE ~m.ok
      BY <3>2 DEF Refund, LogoutFor
    <3>. QED BY <3>1, <3>2
  <2>. QED BY <1>2, <2>1 DEF BuildPrivateShopResult, Reads
<1>5. /\ z \in OutMsgs
      /\ \/ z.op = "LOGOUT" /\ z.desc = pend[c].desc
         \/ z.op = "ITEM_SAVE" /\ z.item = Bundle
      /\ m.ok => z.op = "LOGOUT"
  <2>1. CASE m.ok
    BY <1>1, <1>2, <2>1 DEF OutMsgs, DatabaseTypes
  <2>2. CASE ~m.ok
    <3>1. z = [op |-> "ITEM_SAVE", item |-> Bundle, who |-> "owner", count |-> pend[c].bundle]
      BY <2>2 DEF SaveOf
    <3>. QED BY <1>1, <2>2, <3>1, PendIs DEF OutMsgs
  <2>. QED BY <2>1, <2>2
<1> HIDE DEF z
<1>6. <<z>> \in Seq(OutMsgs) /\ Range(<<z>>) = {z} /\ Before(<<z>>) = {}
  BY <1>5, QueueOfOne
<1>7. /\ out' \in [Cores -> Seq(OutMsgs)]
      /\ \A d \in Cores : \A w : w \in Sent(d)' <=> w \in Sent(d) \/ (d = c /\ w = z)
  <2>1. /\ out' \in [Cores -> Seq(OutMsgs)] /\ \A d \in Cores : d # c => out'[d] = out[d]
        /\ Range(out'[c]) = Range(out[c]) \cup {z}
    BY <1>1, <1>4, <1>6, SendIs
  <2>. QED BY <2>1 DEF Sent
<1>8. \A d \in Cores : d # c => pend'[d] = pend[d] /\ stall'[d] = stall[d] /\ (Pending(d)' <=> Pending(d))
  BY <1>1, <1>4 DEF CoreTypes, Pending
<1>9. /\ pend'[c] = NoPend /\ ~Pending(c)' /\ pend'[c].desc = 0
      /\ stall'[c] = (IF m.ok THEN pend[c].items ELSE NoStall)
  BY <1>1, <1>4 DEF CoreTypes, Pending, NoPend
<1>10. BuildTypeOK'
  <2>1. ClientTypes' /\ CoreTypes'
    <3>1. pend' \in [Cores -> PendRecords]
      BY <1>1, <1>4 DEF CoreTypes, PendRecords
    <3>2. stall' \in [Cores -> (SUBSET Items) \cup {NoStall}]
      BY <1>1, <1>2, <1>4 DEF CoreTypes
    <3>. QED BY <1>1, <1>4, <3>1, <3>2 DEF ClientTypes, CoreTypes, client, database
  <2>2. MailTypes'
    <3>1. \A d \in Cores \ up : in'[d] = <<>> /\ pend'[d] = NoPend
      BY <1>1, <1>3, <1>8, <1>9 DEF MailTypes
    <3>. QED BY <1>3, <1>4, <1>7, <3>1 DEF MailTypes
  <2>. QED BY <1>3, <2>1, <2>2 DEF BuildTypeOK
<1>11. OnePlace'
  BY <1>1, <1>4 DEF OnePlace, client, database
<1>12. here # Away => here.core \in Cores /\ here.core # c
  BY <1>1, <1>2, HereIs
<1>13. HeldWhilePending'
  <2>1. here' = here /\ locked' = locked /\ skip' = skip /\ Away' = Away
    BY <1>4 DEF client, Away
  <2>. QED BY <1>1, <1>8, <1>12, <2>1 DEF HeldWhilePending
<1>14. OutOrder'
  <2>1. \A x \in Sent(c) : MayFollow(x, z)
    BY <1>2, <1>5 DEF MayFollow, Own
  <2>. QED BY <1>1, <1>4, <1>6, <2>1, SendInOrder
<1>15. HereInv'
  <2>1. /\ here' = here /\ bag' = bag /\ locked' = locked /\ skip' = skip /\ dirty' = dirty /\ panel' = panel
        /\ up' = up /\ playing' = playing /\ last' = last /\ shop' = shop
    BY <1>4 DEF client, database
  <2>2. here # Away => (Accepts(here.core) => Accepts(here.core)') /\ (Pending(here.core)' <=> Pending(here.core))
                       /\ pend'[here.core] = pend[here.core]
    BY <1>3, <1>8, <1>12, <2>1
  <2>3. Away' = Away /\ Exists' = Exists
    BY <2>1 DEF Away, Exists
  <2>4. bag \cap shop.items # {} => Accepts(here.core)'
    BY <1>1, <2>2 DEF HereInv
  <2>. QED BY <1>1, <2>1, <2>2, <2>3, <2>4 DEF HereInv
<1>16. CoreInv'
  <2> SUFFICES ASSUME NEW d \in Cores PROVE CoreOK(d)'
    BY DEF CoreInv
  <2>1. CASE d = c
    BY <1>2, <1>4, <1>9, <2>1 DEF CoreOK, database
  <2>2. CASE d # c
    <3>1. CoreOK(d) /\ Coming(d) \subseteq Coming(d)' /\ Sent(d) \subseteq Sent(d)'
      BY <1>1, <1>3, <1>7, <2>2 DEF CoreInv
    <3>. QED BY <1>4, <1>8, <2>2, <3>1 DEF CoreOK, database
  <2>. QED BY <2>1, <2>2
<1>17. OutInv'
  <2> SUFFICES ASSUME NEW d \in Cores, NEW w \in Sent(d)' PROVE OutOK(d, w)'
    BY DEF OutInv
  <2>1. CASE w \in Sent(d)
    <3>1. OutOK(d, w) /\ (w.op = "CREATE" => d # c)
      BY <1>1, <1>2, <2>1 DEF OutInv
    <3>. QED BY <1>3, <1>4, <1>8, <3>1 DEF OutOK, IsHere, client, database
  <2>2. CASE d = c /\ w = z
    <3>1. ~Own(w) /\ w.op \notin {"ACCOUNT_LOGOUT", "CREATE"}
      BY <1>5, <2>2 DEF Own
    <3>2. w.op = "ITEM_SAVE" => w.item \notin shop'.items
      BY <1>1, <1>4, <1>5, <2>2, ShopIs, BuildAssumption DEF database
    <3>3. w.op = "LOGOUT" => w.desc \in 1 .. last' /\ ~IsHere(c, w.desc)'
      BY <1>2, <1>4, <1>5, <2>2 DEF IsHere, client, database
    <3>4. \A x \in Coming(c)' : x.op = "PLAYER_LOAD" => x.desc # pend[c].desc
      <4> SUFFICES ASSUME NEW x \in Coming(c)', x.op = "PLAYER_LOAD" PROVE x.desc # pend[c].desc
        OBVIOUS
      <4>1. InOK(c, x)
        BY <1>3
      <4>2. pend[c].desc < x.desc /\ x.desc \in 1 .. last /\ pend[c].desc \in Nat
        BY <1>1, <1>2, <4>1, PendIs DEF InOK
      <4>. QED BY <1>1, <4>2 DEF DatabaseTypes
    <3>. QED BY <1>5, <2>2, <3>1, <3>2, <3>3, <3>4 DEF OutOK
  <2>. QED BY <1>7, <2>1, <2>2
<1>18. InInv'
  <2> SUFFICES ASSUME NEW d \in Cores, NEW w \in Coming(d)' PROVE InOK(d, w)'
    BY DEF InInv
  <2>1. InOK(d, w) /\ w \in Coming(d)
    BY <1>3
  <2>2. w.op = "CREATE_RESULT" => d # c
    BY <1>2
  <2>3. ASSUME w.op = "PLAYER_LOAD" PROVE pend'[d].desc < w.desc /\ \A x \in Sent(d)' : ~Own(x)
    <3>1. pend'[d].desc < w.desc
      <4>1. CASE d # c
        BY <1>8, <2>1, <2>3, <4>1 DEF InOK
      <4>2. CASE d = c
        <5>1. w.desc \in 1 .. last
          BY <2>1, <2>3 DEF InOK
        <5>. QED BY <1>1, <1>9, <4>2, <5>1 DEF DatabaseTypes
      <4>. QED BY <4>1, <4>2
    <3>2. \A x \in Sent(d)' : ~Own(x)
      BY <1>5, <1>7, <2>1, <2>3 DEF InOK, Own
    <3>. QED BY <3>1, <3>2
  <2>4. \A k : LoadComes(d, k) => LoadComes(d, k)'
    BY <1>3
  <2>. QED BY <1>4, <1>8, <2>1, <2>2, <2>3, <2>4 DEF InOK, Exists, client, database
<1>19. BindInv'
  <2>1. /\ here' = here /\ shop' = shop /\ loads' = loads /\ last' = last /\ up' = up /\ panel' = panel
        /\ Exists' = Exists /\ Away' = Away
    BY <1>4 DEF client, database, Exists, Away
  <2>2. ASSUME NEW d \in Cores, NEW k, Hears(d, k) PROVE Hears(d, k)' \/ (d = c /\ LogsOut(d, k)')
    <3>1. CASE LoadComes(d, k)
      BY <1>3, <3>1 DEF Hears
    <3>2. CASE pend[d].desc = k /\ Accepts(d)
      <4>1. CASE d # c
        BY <1>3, <1>8, <3>2, <4>1 DEF Hears
      <4>2. CASE d = c
        <5>1. m.ok /\ z.op = "LOGOUT" /\ z.desc = k
          BY <1>2, <1>5, <3>2, <4>2
        <5>. QED BY <1>7, <4>2, <5>1 DEF LogsOut
      <4>. QED BY <4>1, <4>2
    <3>. QED BY <2>2, <3>1, <3>2 DEF Hears
  <2>3. ASSUME NEW d \in Cores, NEW k, LogsOut(d, k) PROVE LogsOut(d, k)'
    BY <1>7, <2>3 DEF LogsOut
  <2>4. shop.owner.core \in up => shop.owner.core \in Cores
    BY <1>1 DEF CoreTypes
  <2>5. (shop.owner.core \in up =>
           \/ here = shop.owner /\ panel
           \/ LogsOut(shop.owner.core, shop.owner.desc)
           \/ Hears(shop.owner.core, shop.owner.desc))'
    BY <1>1, <2>1, <2>2, <2>3, <2>4 DEF BindInv
  <2>6. (here # Away =>
           /\ loads # <<>> => Last(loads) = here
           /\ Exists /\ loads = <<>> => shop.owner = here /\ (panel \/ Hears(here.core, here.desc)))'
    BY <1>1, <1>12, <2>1, <2>2 DEF BindInv
  <2>. QED BY <1>1, <2>1, <2>5, <2>6 DEF BindInv
<1>. QED BY <1>3, <1>10, <1>11, <1>13, <1>14, <1>15, <1>16, <1>17, <1>18, <1>19 DEF BuildInv

\* The character of a session is there.
LEMMA PlayerKeeps ==
    ASSUME BuildInv, NEW c \in Cores, NEW m, Reads(c, m), PlayerLoad(c, m)
    PROVE  BuildInv'
<1>1. /\ BuildTypeOK /\ ClientTypes /\ CoreTypes /\ DatabaseTypes /\ MailTypes /\ OnePlace
      /\ OutOrder /\ InOrder /\ HereInv /\ CoreInv /\ OutInv /\ InInv /\ BindInv
  BY DEF BuildInv, BuildTypeOK
<1>2. /\ here' = [core |-> c, desc |-> m.desc] /\ bag' = m.items /\ stack' = m.bundles /\ m.op = "PLAYER_LOAD"
      /\ UNCHANGED <<locked, skip, dirty, panel, core, out, database>>
  BY DEF PlayerLoad, Reads
<1>3. /\ m \in InMsgs /\ m \in Coming(c) /\ InOK(c, m) /\ InOrder' /\ DatabaseTypes'
      /\ in' \in [Cores -> Seq(InMsgs)] /\ \A d \in Cores \ up : in'[d] = <<>>
      /\ \A d \in Cores : \A w : /\ w \in Coming(d)' => w \in Coming(d) /\ InOK(d, w)
                                 /\ w \in Coming(d) => w \in Coming(d)' \/ (d = c /\ w = m)
      /\ \A w \in Coming(c)' : MayAnswer(m, w)
      /\ \A d, k : d \in Cores /\ LoadComes(d, k) => LoadComes(d, k)'
      /\ \A d : d \in Cores /\ Accepts(d) => Accepts(d)'
  BY <1>2, ReadsIs
<1>4. /\ playing = c /\ here = Away /\ m.items \cap shop.items = {} /\ m.desc \in 1 .. last
      /\ \A w \in Sent(c) : ~Own(w)
      /\ loads # <<>> => Last(loads) = here'
      /\ Exists /\ loads = <<>> => shop.owner = here' /\ LoadComes(c, m.desc)
  BY <1>2, <1>3 DEF InOK
<1>5. here'.core = c /\ here'.desc = m.desc /\ here' \in Session /\ c \in up /\ bag' \subseteq Items /\ stack' \in Nat
  <2>1. m.desc \in Nat /\ m.items \subseteq Items /\ m.bundles \in Nat
    BY <1>2, <1>3, InFields
  <2>. QED BY <1>2, <2>1 DEF Session, Reads
<1>6. ~Pending(c) /\ pend[c].desc = 0
  <2>1. \A w \in Coming(c)' : w.op \notin {"PLAYER_LOAD", "CREATE_RESULT"}
    BY <1>2, <1>3 DEF MayAnswer
  <2>2. \A w \in Coming(c) : w.op # "CREATE_RESULT"
    BY <1>2, <1>3, <2>1
  <2>3. ~Pending(c)
    BY <1>1, <1>4, <2>2 DEF CoreInv, CoreOK, Own
  <2>. QED BY <1>1, <2>3, PendIs
<1>7. bag = {} /\ locked = {} /\ skip = {} /\ dirty = {} /\ ~panel
  BY <1>1, <1>4 DEF HereInv
<1>8. BuildTypeOK'
  BY <1>1, <1>2, <1>3, <1>5 DEF BuildTypeOK, ClientTypes, CoreTypes, MailTypes, core, database
<1>9. OnePlace' /\ HeldWhilePending'
  <2>1. OnePlace'
    BY <1>1, <1>2, <1>4 DEF OnePlace, database
  <2>2. pend'[here'.core].desc = 0 /\ here'.desc # 0
    BY <1>1, <1>2, <1>4, <1>5, <1>6 DEF core, DatabaseTypes
  <2>3. locked' = {} /\ skip' = {}
    BY <1>2, <1>7
  <2>. QED BY <2>1, <2>2, <2>3 DEF HeldWhilePending
<1>10. OutOrder'
  BY <1>1, <1>2 DEF OutOrder
<1>11. HereInv'
  <2>1. /\ locked' = {} /\ skip' = {} /\ dirty' = {} /\ ~panel' /\ bag' \cap shop'.items = {}
        /\ playing' = here'.core /\ here'.core \in up' /\ here'.desc \in 1 .. last'
    BY <1>2, <1>4, <1>5, <1>7 DEF core, database
  <2>2. ~Pending(c)'
    BY <1>2, <1>6 DEF Pending, core
  <2>3. here' # Away'
    BY <1>5, BuildAssumption DEF Away
  <2>. QED BY <1>5, <2>1, <2>2, <2>3 DEF HereInv
<1>12. CoreInv'
  <2> SUFFICES ASSUME NEW d \in Cores PROVE CoreOK(d)'
    BY DEF CoreInv
  <2>1. CoreOK(d) /\ Sent(d)' = Sent(d) /\ \A w \in Coming(d) : w.op = "CREATE_RESULT" => w \in Coming(d)'
    BY <1>1, <1>2, <1>3 DEF CoreInv, Sent
  <2>. QED BY <1>2, <2>1 DEF CoreOK, Pending, core, database
<1>13. OutInv'
  <2> SUFFICES ASSUME NEW d \in Cores, NEW w \in Sent(d)' PROVE OutOK(d, w)'
    BY DEF OutInv
  <2>1. OutOK(d, w) /\ w \in Sent(d)
    BY <1>1, <1>2 DEF OutInv, Sent
  <2>2. ~Own(w)
    <3>1. Own(w) => d = c
      BY <1>4, <2>1 DEF OutOK
    <3>. QED BY <1>4, <2>1, <3>1
  <2>3. w.op = "LOGOUT" => ~(d = c /\ w.desc = m.desc)
    BY <1>2, <1>3, <2>1 DEF OutOK
  <2>. QED BY <1>2, <1>3, <1>5, <2>1, <2>2, <2>3 DEF OutOK, Own, IsHere, core, database
<1>14. InInv'
  <2> SUFFICES ASSUME NEW d \in Cores, NEW w \in Coming(d)' PROVE InOK(d, w)'
    BY DEF InInv
  <2>1. InOK(d, w)
    BY <1>3
  <2>2. w.op # "PLAYER_LOAD"
    <3>1. w.op = "PLAYER_LOAD" => d = c
      BY <1>4, <2>1 DEF InOK
    <3>. QED BY <1>2, <1>3, <3>1 DEF MayAnswer
  <2>. QED BY <1>2, <2>1, <2>2 DEF InOK, Pending, Exists, core, database
<1>15. BindInv'
  <2>1. /\ shop' = shop /\ loads' = loads /\ last' = last /\ up' = up /\ panel' = panel /\ pend' = pend
        /\ Exists' = Exists
    BY <1>2 DEF core, database, Exists
  <2>2. ASSUME NEW d \in Cores, NEW k, Hears(d, k) PROVE Hears(d, k)'
    BY <1>3, <2>1, <2>2 DEF Hears
  <2>3. ASSUME NEW d \in Cores, NEW k, LogsOut(d, k) PROVE LogsOut(d, k)'
    BY <1>2, <2>3 DEF LogsOut, Sent
  <2>4. shop.owner.core \in up => shop.owner.core \in Cores
    BY <1>1 DEF CoreTypes
  <2>5. (shop.owner.core \in up =>
           \/ here = shop.owner /\ panel
           \/ LogsOut(shop.owner.core, shop.owner.desc)
           \/ Hears(shop.owner.core, shop.owner.desc))'
    BY <1>1, <1>7, <2>1, <2>2, <2>3, <2>4 DEF BindInv
  <2>6. Exists /\ loads = <<>> => Hears(c, m.desc)'
    BY <1>3, <1>4 DEF Hears
  <2>7. (here # Away =>
           /\ loads # <<>> => Last(loads) = here
           /\ Exists /\ loads = <<>> => shop.owner = here /\ (panel \/ Hears(here.core, here.desc)))'
    BY <1>4, <1>5, <2>1, <2>6
  <2>. QED BY <1>1, <2>1, <2>5, <2>7 DEF BindInv
<1>. QED BY <1>3, <1>8, <1>9, <1>10, <1>11, <1>12, <1>13, <1>14, <1>15 DEF BuildInv

\* The shop is announced to its owner.
LEMMA AnnouncedKeeps ==
    ASSUME BuildInv, NEW c \in Cores, NEW m, Reads(c, m), GameLoad(c, m), here = [core |-> c, desc |-> m.desc]
    PROVE  BuildInv'
<1>1. /\ BuildTypeOK /\ ClientTypes /\ CoreTypes /\ DatabaseTypes /\ MailTypes /\ OnePlace /\ HeldWhilePending
      /\ OutOrder /\ InOrder /\ HereInv /\ CoreInv /\ OutInv /\ InInv /\ BindInv
  BY DEF BuildInv, BuildTypeOK
<1>2. panel' = TRUE /\ m.op = "LOAD" /\ UNCHANGED <<here, bag, locked, skip, stack, dirty, core, out, database>>
  BY DEF GameLoad, Reads
<1>3. /\ m \in InMsgs /\ InOK(c, m) /\ InOrder' /\ DatabaseTypes'
      /\ in' \in [Cores -> Seq(InMsgs)] /\ \A d \in Cores \ up : in'[d] = <<>>
      /\ \A d \in Cores : \A w : /\ w \in Coming(d)' => w \in Coming(d) /\ InOK(d, w)
                                 /\ w \in Coming(d) => w \in Coming(d)' \/ (d = c /\ w = m)
      /\ \A d, k : d \in Cores /\ LoadComes(d, k) => LoadComes(d, k)' \/ (d = c /\ m.desc = k)
      /\ \A d : d \in Cores /\ Accepts(d) => Accepts(d)'
  BY <1>2, ReadsIs
<1>4. here.core = c /\ here.desc = m.desc /\ here # Away /\ here' = here /\ Exists
  <2>1. here.core = c /\ here.desc = m.desc
    OBVIOUS
  <2>. QED BY <1>1, <1>2, <1>3, <2>1, HereIs DEF InOK
<1>5. BuildTypeOK'
  BY <1>1, <1>2, <1>3 DEF BuildTypeOK, ClientTypes, CoreTypes, MailTypes, core, database
<1>6. OnePlace' /\ HeldWhilePending' /\ OutOrder'
  BY <1>1, <1>2 DEF OnePlace, HeldWhilePending, OutOrder, core, database
<1>7. HereInv'
  <2>1. /\ here' = here /\ bag' = bag /\ locked' = locked /\ skip' = skip /\ dirty' = dirty /\ pend' = pend
        /\ up' = up /\ playing' = playing /\ last' = last /\ shop' = shop
    BY <1>2 DEF core, database
  <2>2. (Accepts(c) => Accepts(c)') /\ (Pending(c)' <=> Pending(c)) /\ Exists' /\ Away' = Away
    BY <1>3, <1>4, <2>1 DEF Pending, Exists, Away
  <2>. QED BY <1>1, <1>4, <2>1, <2>2 DEF HereInv
<1>8. CoreInv'
  <2> SUFFICES ASSUME NEW d \in Cores PROVE CoreOK(d)'
    BY DEF CoreInv
  <2>1. CoreOK(d) /\ Sent(d)' = Sent(d) /\ \A w \in Coming(d) : w.op = "CREATE_RESULT" => w \in Coming(d)'
    BY <1>1, <1>2, <1>3 DEF CoreInv, Sent
  <2>. QED BY <1>2, <2>1 DEF CoreOK, Pending, core, database
<1>9. OutInv'
  <2> SUFFICES ASSUME NEW d \in Cores, NEW w \in Sent(d)' PROVE OutOK(d, w)'
    BY DEF OutInv
  <2>1. OutOK(d, w)
    BY <1>1, <1>2 DEF OutInv, Sent
  <2>. QED BY <1>2, <1>3, <2>1 DEF OutOK, IsHere, core, database
<1>10. InInv'
  <2> SUFFICES ASSUME NEW d \in Cores, NEW w \in Coming(d)' PROVE InOK(d, w)'
    BY DEF InInv
  <2>1. InOK(d, w) /\ w.op # "PLAYER_LOAD"
    BY <1>3, <1>4 DEF InOK
  <2>. QED BY <1>2, <2>1 DEF InOK, Pending, Exists, core, database
<1>11. BindInv'
  <2>1. /\ shop' = shop /\ loads' = loads /\ last' = last /\ up' = up /\ panel' /\ pend' = pend
        /\ Exists' = Exists /\ Away' = Away
    BY <1>2 DEF core, database, Exists, Away
  <2>2. ASSUME NEW d \in Cores, NEW k, Hears(d, k) PROVE Hears(d, k)' \/ (d = c /\ m.desc = k)
    BY <1>3, <2>1, <2>2 DEF Hears
  <2>3. ASSUME NEW d \in Cores, NEW k, LogsOut(d, k) PROVE LogsOut(d, k)'
    BY <1>2, <2>3 DEF LogsOut, Sent
  <2>4. shop.owner.core \in up => shop.owner.core \in Cores /\ shop.owner = [core |-> shop.owner.core, desc |-> shop.owner.desc]
    BY <1>1, ShopIs, SessionIs DEF CoreTypes
  <2>5. (shop.owner.core \in up =>
           \/ here = shop.owner /\ panel
           \/ LogsOut(shop.owner.core, shop.owner.desc)
           \/ Hears(shop.owner.core, shop.owner.desc))'
    BY <1>1, <1>4, <2>1, <2>2, <2>3, <2>4 DEF BindInv
  <2>. QED BY <1>1, <1>4, <2>1, <2>5 DEF BindInv
<1>. QED BY <1>3, <1>5, <1>6, <1>7, <1>8, <1>9, <1>10, <1>11 DEF BuildInv

\* The shop is announced to a connection that is over, which says so.
LEMMA AnnouncedLateKeeps ==
    ASSUME BuildInv, NEW c \in Cores, NEW m, Reads(c, m), GameLoad(c, m), here # [core |-> c, desc |-> m.desc]
    PROVE  BuildInv'
<1>1. /\ BuildTypeOK /\ ClientTypes /\ CoreTypes /\ DatabaseTypes /\ MailTypes /\ OnePlace /\ HeldWhilePending
      /\ OutOrder /\ InOrder /\ HereInv /\ CoreInv /\ OutInv /\ InInv /\ BindInv
  BY DEF BuildInv, BuildTypeOK
<1> DEFINE z == [op |-> "LOGOUT", desc |-> m.desc]
<1>2. Send(c, <<z>>) /\ m.op = "LOAD" /\ UNCHANGED <<client, core, database>>
  BY DEF GameLoad, Reads
<1>3. /\ m \in InMsgs /\ InOK(c, m) /\ InOrder' /\ DatabaseTypes'
      /\ in' \in [Cores -> Seq(InMsgs)] /\ \A d \in Cores \ up : in'[d] = <<>>
      /\ \A d \in Cores : \A w : /\ w \in Coming(d)' => w \in Coming(d) /\ InOK(d, w)
                                 /\ w \in Coming(d) => w \in Coming(d)' \/ (d = c /\ w = m)
      /\ \A w \in Coming(c)' : MayAnswer(m, w)
      /\ \A d, k : d \in Cores /\ LoadComes(d, k) => LoadComes(d, k)' \/ (d = c /\ m.desc = k)
      /\ \A d : d \in Cores /\ Accepts(d) => Accepts(d)'
  BY <1>2, ReadsIs
<1>4. Exists /\ m.desc \in 1 .. last /\ ~IsHere(c, m.desc) /\ \A w \in Coming(c)' : w.op = "PLAYER_LOAD" => w.desc # m.desc
  BY <1>1, <1>2, <1>3, HereIs DEF InOK, MayAnswer
<1>5. z \in OutMsgs /\ z.op = "LOGOUT" /\ z.desc = m.desc /\ ~Own(z)
  BY <1>1, <1>4 DEF OutMsgs, DatabaseTypes, Own
<1> HIDE DEF z
<1>6. <<z>> \in Seq(OutMsgs) /\ Range(<<z>>) = {z} /\ Before(<<z>>) = {}
  BY <1>5, QueueOfOne
<1>7. /\ out' \in [Cores -> Seq(OutMsgs)]
      /\ \A d \in Cores : \A w : w \in Sent(d)' <=> w \in Sent(d) \/ (d = c /\ w = z)
  <2>1. /\ out' \in [Cores -> Seq(OutMsgs)] /\ \A d \in Cores : d # c => out'[d] = out[d]
        /\ Range(out'[c]) = Range(out[c]) \cup {z}
    BY <1>1, <1>2, <1>6, SendIs
  <2>. QED BY <2>1 DEF Sent
<1>8. BuildTypeOK'
  BY <1>1, <1>2, <1>3, <1>7 DEF BuildTypeOK, ClientTypes, CoreTypes, MailTypes, client, core, database
<1>9. OnePlace' /\ HeldWhilePending'
  BY <1>1, <1>2 DEF OnePlace, HeldWhilePending, client, core, database
<1>10. OutOrder'
  <2>1. \A x \in Sent(c) : MayFollow(x, z)
    BY <1>5 DEF MayFollow
  <2>. QED BY <1>1, <1>2, <1>6, <2>1, SendInOrder
<1>11. /\ here' = here /\ bag' = bag /\ locked' = locked /\ skip' = skip /\ dirty' = dirty /\ panel' = panel
       /\ pend' = pend /\ up' = up /\ playing' = playing /\ last' = last /\ shop' = shop /\ loads' = loads
       /\ Exists' = Exists /\ Away' = Away
  BY <1>2 DEF client, core, database, Exists, Away
<1>12. here # Away => here.core \in Cores
  BY <1>1, HereIs
<1>13. HereInv'
  <2>1. here # Away => (Accepts(here.core) => Accepts(here.core)') /\ (Pending(here.core)' <=> Pending(here.core))
    BY <1>3, <1>11, <1>12 DEF Pending
  <2>2. bag \cap shop.items # {} => Accepts(here.core)'
    BY <1>1, <2>1 DEF HereInv
  <2>. QED BY <1>1, <1>11, <2>1, <2>2 DEF HereInv
<1>14. CoreInv'
  <2> SUFFICES ASSUME NEW d \in Cores PROVE CoreOK(d)'
    BY DEF CoreInv
  <2>1. CoreOK(d) /\ Sent(d) \subseteq Sent(d)' /\ \A w \in Coming(d) : w.op = "CREATE_RESULT" => w \in Coming(d)'
    BY <1>1, <1>2, <1>3, <1>7 DEF CoreInv
  <2>. QED BY <1>2, <2>1 DEF CoreOK, Pending, core, database
<1>15. OutInv'
  <2> SUFFICES ASSUME NEW d \in Cores, NEW w \in Sent(d)' PROVE OutOK(d, w)'
    BY DEF OutInv
  <2>1. CASE w \in Sent(d)
    <3>1. OutOK(d, w)
      BY <1>1, <2>1 DEF OutInv
    <3>. QED BY <1>2, <1>3, <3>1 DEF OutOK, IsHere, client, core, database
  <2>2. CASE d = c /\ w = z
    BY <1>4, <1>5, <1>11, <2>2 DEF OutOK, IsHere
  <2>. QED BY <1>7, <2>1, <2>2
<1>16. InInv'
  <2> SUFFICES ASSUME NEW d \in Cores, NEW w \in Coming(d)' PROVE InOK(d, w)'
    BY DEF InInv
  <2>1. InOK(d, w)
    BY <1>3
  <2>2. w.op = "PLAYER_LOAD" => (LoadComes(d, w.desc) => LoadComes(d, w.desc)') /\ \A x \in Sent(d)' : ~Own(x)
    BY <1>3, <1>4, <1>5, <1>7, <2>1 DEF InOK
  <2>. QED BY <1>11, <2>1, <2>2 DEF InOK, Pending
<1>17. BindInv'
  <2>1. ASSUME NEW d \in Cores, NEW k, Hears(d, k) PROVE Hears(d, k)' \/ (d = c /\ m.desc = k)
    BY <1>3, <1>11, <2>1 DEF Hears
  <2>2. ASSUME NEW d \in Cores, NEW k, LogsOut(d, k) PROVE LogsOut(d, k)'
    BY <1>7, <2>2 DEF LogsOut
  <2>3. LogsOut(c, m.desc)'
    BY <1>5, <1>7 DEF LogsOut
  <2>4. shop.owner.core \in up => shop.owner.core \in Cores
    BY <1>1 DEF CoreTypes
  <2>5. (shop.owner.core \in up =>
           \/ here = shop.owner /\ panel
           \/ LogsOut(shop.owner.core, shop.owner.desc)
           \/ Hears(shop.owner.core, shop.owner.desc))'
    BY <1>1, <1>11, <2>1, <2>2, <2>3, <2>4 DEF BindInv
  <2>6. here # Away => (Hears(here.core, here.desc) => Hears(here.core, here.desc)')
    BY <1>4, <1>11, <1>12, <2>1 DEF IsHere
  <2>. QED BY <1>1, <1>11, <2>5, <2>6 DEF BindInv
<1>. QED BY <1>3, <1>8, <1>9, <1>10, <1>13, <1>14, <1>15, <1>16, <1>17 DEF BuildInv

-----------------------------------------------------------------------------
\* The owner asks for a shop.
LEMMA BuildKeeps ==
    ASSUME BuildInv, NEW S \in SUBSET Items, BuildPrivateShop(S)
    PROVE  BuildInv'
<1>1. /\ BuildTypeOK /\ ClientTypes /\ CoreTypes /\ DatabaseTypes /\ MailTypes /\ OnePlace /\ HeldWhilePending
      /\ OutOrder /\ InOrder /\ HereInv /\ CoreInv /\ OutInv /\ InInv /\ BindInv
  BY DEF BuildInv, BuildTypeOK
<1>2. PICK c \in Cores : here.core = c
  BY <1>1, HereIs DEF BuildPrivateShop
<1>3. /\ here # Away /\ S # {} /\ S \subseteq bag \ locked /\ stack > 0 /\ stall[c] = NoStall
      /\ locked' = locked \cup S /\ skip' = skip \cup S
      /\ stall' = [stall EXCEPT ![c] = {}]
      /\ pend' = [pend EXCEPT ![c] = [items |-> S, desc |-> here.desc, bundle |-> stack, left |-> FALSE]]
      /\ stack' = stack - 1
      /\ dirty' = (IF stack' > 0 THEN (dirty \ Flushed(S)) \cup {Bundle} ELSE (dirty \ Flushed(S)) \ {Bundle})
      /\ UNCHANGED <<here, bag, panel, up, database, in>>
  BY <1>2 DEF BuildPrivateShop
<1> DEFINE a == [op |-> "CREATE", desc |-> here.desc, items |-> S]
           z == [op |-> "ITEM_DESTROY", item |-> Bundle]
           tail == IF stack' > 0 THEN <<>> ELSE <<z>>
<1>4. here \in Session /\ here.desc \in 1 .. last /\ here.desc \in Nat /\ c \in up /\ playing = c /\ stack \in Nat
  BY <1>1, <1>2, <1>3, HereIs, SessionIs DEF HereInv, ClientTypes
<1>5. ~Pending(c) /\ shop.host # c
  <2>1. CoreOK(c) /\ c \in up
    BY <1>1, <1>4 DEF CoreInv
  <2>2. \A x \in SUBSET Items : x # NoStall
    BY BuildAssumption
  <2>3. shop.items \subseteq Items
    BY <1>1, ShopIs
  <2>. QED BY <1>3, <2>1, <2>2, <2>3 DEF CoreOK
<1>6. locked = {} /\ skip = {} /\ bag \cap shop.items = {}
  BY <1>1, <1>2, <1>3, <1>5, LockedIs, PendIs DEF OnePlace
<1>7. /\ \A w \in Sent(c) : w.op \notin {"CREATE", "ACCOUNT_LOGOUT"}
      /\ \A w \in Coming(c) : w.op \notin {"CREATE_RESULT", "PLAYER_LOAD"}
  <2>1. \A w \in Sent(c) : w \in OutMsgs
    BY <1>1, RangeIs DEF Sent, MailTypes
  <2>2. \A w \in Sent(c) : w.op \notin {"CREATE", "ACCOUNT_LOGOUT"}
    BY <1>2, <1>3, <1>6, <2>1, LockedIs, OutFields
  <2>3. \A w \in Coming(c) : w.op \notin {"CREATE_RESULT", "PLAYER_LOAD"}
    BY <1>1, <1>3, <1>5 DEF InInv, InOK
  <2>. QED BY <2>2, <2>3
<1>8. /\ a \in OutMsgs /\ a.op = "CREATE" /\ a.desc = here.desc /\ a.items = S
      /\ z \in OutMsgs /\ z.op = "ITEM_DESTROY"
  BY <1>3, <1>4 DEF OutMsgs, Stock
<1> HIDE DEF a, z
<1>9. /\ tail \in Seq(OutMsgs) /\ Range(tail) \subseteq {z} /\ Before(tail) = {}
      /\ <<a>> \in Seq(OutMsgs) /\ Range(<<a>>) = {a} /\ Before(<<a>>) = {}
  BY <1>8, QueueOfOne, QueueOfNone
<1>10. /\ Saves(Flushed(S)) \in Seq(OutMsgs)
       /\ \A m \in Range(Saves(Flushed(S))) : m.op = "ITEM_SAVE" /\ m.item \in S
       /\ \A p \in Before(Saves(Flushed(S))) : p[1].op = "ITEM_SAVE"
  <2>1. Flushed(S) \subseteq Items \cup {Bundle} /\ Flushed(S) \subseteq S
    BY DEF Flushed
  <2>. QED BY <1>1, <2>1, SavesAre
<1> DEFINE sv == Saves(Flushed(S))
           mid == sv \o <<a>>
           ms == mid \o tail
<1>11. Send(c, ms)
  BY <1>2 DEF BuildPrivateShop, a, z
<1> HIDE DEF sv, tail
<1>12. /\ mid \in Seq(OutMsgs) /\ Range(mid) = Range(sv) \cup {a}
       /\ Before(mid) \subseteq Before(sv) \cup (Range(sv) \X {a})
  <2>1. sv \in Seq(OutMsgs)
    BY <1>10 DEF sv
  <2>2. /\ mid \in Seq(OutMsgs) /\ Range(mid) = Range(sv) \cup Range(<<a>>)
        /\ Before(mid) \subseteq Before(sv) \cup Before(<<a>>) \cup (Range(sv) \X Range(<<a>>))
    BY <1>9, <2>1, QueueCat
  <2>. QED BY <1>9, <2>2
<1> HIDE DEF mid
<1>13. /\ ms \in Seq(OutMsgs) /\ Range(ms) \subseteq Range(sv) \cup {a, z} /\ Range(sv) \cup {a} \subseteq Range(ms)
       /\ Before(ms) \subseteq Before(mid) \cup (Range(mid) \X {z})
  <2>1. /\ ms \in Seq(OutMsgs) /\ Range(ms) = Range(mid) \cup Range(tail)
        /\ Before(ms) \subseteq Before(mid) \cup Before(tail) \cup (Range(mid) \X Range(tail))
    BY <1>9, <1>12, QueueCat
  <2>. QED BY <1>9, <1>12, <2>1
<1> HIDE DEF ms
<1>14. \A p \in Before(ms) : MayFollow(p[1], p[2])
  <2> SUFFICES ASSUME NEW p \in Before(ms) PROVE MayFollow(p[1], p[2])
    OBVIOUS
  <2>1. CASE p \in Before(sv)
    BY <1>10, <2>1 DEF sv, MayFollow
  <2>2. CASE p \in Range(sv) \X {a}
    BY <1>10, <2>2 DEF sv, MayFollow
  <2>3. CASE p \in Range(mid) \X {z}
    <3>1. p[1].op \in {"ITEM_SAVE", "CREATE"} /\ p[2].op = "ITEM_DESTROY"
      BY <1>8, <1>10, <1>12, <2>3 DEF sv
    <3>. QED BY <3>1 DEF MayFollow
  <2>. QED BY <1>12, <1>13, <2>1, <2>2, <2>3
<1>15. /\ out' \in [Cores -> Seq(OutMsgs)] /\ OutOrder'
       /\ \A d \in Cores : \A w : /\ w \in Sent(d) => w \in Sent(d)'
                                  /\ w \in Sent(d)' => w \in Sent(d) \/ (d = c /\ w \in Range(ms))
       /\ a \in Sent(c)'
  <2>1. /\ out' \in [Cores -> Seq(OutMsgs)] /\ \A d \in Cores : d # c => out'[d] = out[d]
        /\ Range(out'[c]) = Range(out[c]) \cup Range(ms)
    BY <1>1, <1>11, <1>13, SendIs
  <2>2. \A m \in Sent(c), w \in Range(ms) : MayFollow(m, w)
    BY <1>7 DEF MayFollow
  <2>3. OutOrder'
    BY <1>1, <1>11, <1>13, <1>14, <2>2, SendInOrder
  <2>. QED BY <1>13, <2>1, <2>3 DEF Sent
<1>16. \A d \in Cores : d # c => pend'[d] = pend[d] /\ stall'[d] = stall[d] /\ (Pending(d)' <=> Pending(d))
  BY <1>1, <1>3 DEF CoreTypes, Pending
<1>17. /\ pend'[c].items = S /\ pend'[c].desc = here.desc /\ ~pend'[c].left /\ Pending(c)' /\ stall'[c] = {}
       /\ pend' \in [Cores -> PendRecords]
  <2> DEFINE r == [items |-> S, desc |-> here.desc, bundle |-> stack, left |-> FALSE]
  <2>1. r \in PendRecords /\ r.items = S /\ r.desc = here.desc /\ ~r.left
    BY <1>3, <1>4 DEF PendRecords, Stock
  <2>2. pend' = [pend EXCEPT ![c] = r] /\ stall'[c] = {}
    BY <1>1, <1>3 DEF CoreTypes
  <2> HIDE DEF r
  <2>3. pend'[c] = r /\ pend' \in [Cores -> PendRecords]
    BY <1>1, <2>1, <2>2 DEF CoreTypes
  <2>4. r # NoPend
    BY <1>3, <2>1, PendValue
  <2>. QED BY <2>1, <2>2, <2>3, <2>4 DEF Pending
<1>18. /\ dirty' \subseteq bag \cup {Bundle} /\ dirty' \cap S = {} /\ Bundle \notin S /\ stack' \in Nat
  <2>1. Bundle \notin S /\ stack' \in Nat
    BY <1>3, <1>4, BuildAssumption
  <2>. QED BY <1>1, <1>3, <2>1 DEF HereInv, Flushed
<1>19. BuildTypeOK'
  <2>1. ClientTypes'
    BY <1>1, <1>3, <1>18 DEF ClientTypes
  <2>2. stall' \in [Cores -> (SUBSET Items) \cup {NoStall}]
    BY <1>1, <1>3 DEF CoreTypes
  <2>3. CoreTypes' /\ DatabaseTypes'
    BY <1>1, <1>3, <1>17, <2>2 DEF CoreTypes, DatabaseTypes, database
  <2>4. MailTypes'
    BY <1>1, <1>3, <1>4, <1>15, <1>16 DEF MailTypes
  <2>. QED BY <2>1, <2>3, <2>4 DEF BuildTypeOK
<1>20. OnePlace' /\ HeldWhilePending'
  <2>1. locked' = S /\ skip' = S /\ here' = here /\ bag' = bag /\ shop' = shop /\ row' = row
    BY <1>3, <1>6 DEF database
  <2>. QED BY <1>1, <1>2, <1>6, <1>17, <2>1 DEF OnePlace, HeldWhilePending
<1>21. InOrder'
  BY <1>1, <1>3 DEF InOrder
<1>22. HereInv'
  <2>1. /\ locked' = S /\ skip' = S /\ here' = here /\ bag' = bag /\ shop' = shop /\ panel' = panel /\ up' = up
        /\ playing' = playing /\ last' = last /\ Exists' = Exists /\ Away' = Away
    BY <1>3, <1>6 DEF database, Exists, Away
  <2>. QED BY <1>1, <1>2, <1>3, <1>4, <1>6, <1>17, <1>18, <2>1 DEF HereInv
<1>23. CoreInv'
  <2> SUFFICES ASSUME NEW d \in Cores PROVE CoreOK(d)'
    BY DEF CoreInv
  <2>1. CASE d = c
    BY <1>3, <1>4, <1>8, <1>15, <1>17, <2>1 DEF CoreOK, database
  <2>2. CASE d # c
    <3>1. CoreOK(d) /\ Sent(d) \subseteq Sent(d)'
      BY <1>1, <1>15 DEF CoreInv
    <3>. QED BY <1>3, <1>16, <2>2, <3>1 DEF CoreOK, Coming, database
  <2>. QED BY <2>1, <2>2
<1>24. OutInv'
  <2> SUFFICES ASSUME NEW d \in Cores, NEW w \in Sent(d)' PROVE OutOK(d, w)'
    BY DEF OutInv
  <2>1. CASE w \in Sent(d)
    <3>1. OutOK(d, w) /\ (w.op = "CREATE" => d # c)
      BY <1>1, <1>7, <2>1 DEF OutInv
    <3>. QED BY <1>3, <1>16, <3>1 DEF OutOK, IsHere, Coming, database
  <2>2. CASE d = c /\ w \in Range(sv)
    <3>1. w.op = "ITEM_SAVE" /\ w.item \in S
      BY <1>10, <2>2 DEF sv
    <3>. QED BY <1>3, <1>4, <1>6, <2>2, <3>1 DEF OutOK, database
  <2>3. CASE d = c /\ w = a
    BY <1>3, <1>4, <1>5, <1>7, <1>8, <1>17, <2>3 DEF OutOK, Coming, database
  <2>4. CASE d = c /\ w = z
    BY <1>8, <2>4 DEF OutOK, Own
  <2>. QED BY <1>13, <1>15, <2>1, <2>2, <2>3, <2>4
<1>25. InInv'
  <2> SUFFICES ASSUME NEW d \in Cores, NEW w \in Coming(d)' PROVE InOK(d, w)'
    BY DEF InInv
  <2>1. InOK(d, w) /\ w \in Coming(d)
    BY <1>1, <1>3 DEF InInv, Coming
  <2>2. w.op # "PLAYER_LOAD" /\ (w.op = "CREATE_RESULT" => d # c)
    BY <1>3, <1>7, <2>1 DEF InOK
  <2>. QED BY <1>3, <1>16, <2>1, <2>2 DEF InOK, Exists, database
<1>26. BindInv'
  <2>1. /\ here' = here /\ shop' = shop /\ loads' = loads /\ last' = last /\ up' = up /\ panel' = panel
        /\ in' = in /\ Exists' = Exists /\ Away' = Away
    BY <1>3 DEF database, Exists, Away
  <2>2. ~Accepts(c)
    BY <1>7 DEF Accepts
  <2>3. ASSUME NEW d \in Cores, NEW k, Hears(d, k) PROVE Hears(d, k)'
    <3>1. CASE LoadComes(d, k)
      BY <2>1, <3>1 DEF Hears, LoadComes, Coming
    <3>2. CASE pend[d].desc = k /\ Accepts(d)
      BY <1>16, <2>1, <2>2, <3>2 DEF Hears, Accepts, Coming
    <3>. QED BY <2>3, <3>1, <3>2 DEF Hears
  <2>4. ASSUME NEW d \in Cores, NEW k, LogsOut(d, k) PROVE LogsOut(d, k)'
    BY <1>15, <2>4 DEF LogsOut
  <2>5. shop.owner.core \in up => shop.owner.core \in Cores
    BY <1>1 DEF CoreTypes
  <2>6. (shop.owner.core \in up =>
           \/ here = shop.owner /\ panel
           \/ LogsOut(shop.owner.core, shop.owner.desc)
           \/ Hears(shop.owner.core, shop.owner.desc))'
    BY <1>1, <2>1, <2>3, <2>4, <2>5 DEF BindInv
  <2>7. Hears(here.core, here.desc) => Hears(here.core, here.desc)'
    BY <1>2, <2>1, <2>3
  <2>. QED BY <1>1, <1>3, <2>1, <2>6, <2>7 DEF BindInv
<1>. QED BY <1>15, <1>19, <1>20, <1>21, <1>22, <1>23, <1>24, <1>25, <1>26 DEF BuildInv

\* The owner leaves.
LEMMA DisconnectKeeps ==
    ASSUME BuildInv, Disconnect
    PROVE  BuildInv'
<1>1. /\ BuildTypeOK /\ ClientTypes /\ CoreTypes /\ DatabaseTypes /\ MailTypes /\ OnePlace
      /\ OutOrder /\ InOrder /\ HereInv /\ CoreInv /\ OutInv /\ InInv /\ BindInv
  BY DEF BuildInv, BuildTypeOK
<1>2. PICK c \in Cores : here.core = c
  BY <1>1, HereIs DEF Disconnect
<1> DEFINE hd == IF panel THEN <<[op |-> "LOGOUT", desc |-> here.desc]>> ELSE <<>>
           sv == Saves(dirty \ Pended)
           z == [op |-> "ACCOUNT_LOGOUT"]
           mid == hd \o sv
           ms == mid \o <<z>>
<1>3. /\ here # Away /\ pend' = (IF Pending(c) THEN [pend EXCEPT ![c].left = TRUE] ELSE pend)
      /\ Send(c, ms)
      /\ here' = Away /\ bag' = {} /\ locked' = {} /\ skip' = {} /\ stack' = 0
      /\ dirty' = {} /\ panel' = FALSE
      /\ UNCHANGED <<stall, up, database, in>>
  BY <1>2 DEF Disconnect
<1>4. /\ here \in Session /\ here.desc \in 1 .. last /\ here.desc \in Nat /\ c \in up /\ playing = c
      /\ \A w \in Coming(c) : w.op # "PLAYER_LOAD"
  BY <1>1, <1>2, <1>3, HereIs, SessionIs DEF HereInv, InInv, InOK
<1>5. /\ \A x \in dirty : x \notin locked /\ x \notin shop.items
      /\ \A w \in Sent(c) : w.op # "ACCOUNT_LOGOUT" /\ (w.op = "CREATE" => w.items = locked)
  <2>1. Bundle \notin shop.items /\ Bundle \notin locked
    BY <1>1, ShopIs, BuildAssumption DEF ClientTypes
  <2>2. locked = skip /\ \A w \in Sent(c) : w.op # "ACCOUNT_LOGOUT" /\ (w.op = "CREATE" => w.items = locked)
    BY <1>2, <1>3, LockedIs
  <2>. QED BY <1>1, <2>1, <2>2 DEF HereInv, OnePlace
<1>6. /\ hd \in Seq(OutMsgs) /\ Before(hd) = {}
      /\ \A w \in Range(hd) : w.op = "LOGOUT" /\ w.desc = here.desc
      /\ panel => \E w \in Range(hd) : w.op = "LOGOUT" /\ w.desc = here.desc
  <2> DEFINE w == [op |-> "LOGOUT", desc |-> here.desc]
  <2>1. w \in OutMsgs /\ w.op = "LOGOUT" /\ w.desc = here.desc
    BY <1>4 DEF OutMsgs
  <2>2. hd = IF panel THEN <<w>> ELSE <<>>
    OBVIOUS
  <2> HIDE DEF w, hd
  <2>3. CASE panel
    BY <2>1, <2>2, <2>3, QueueOfOne
  <2>4. CASE ~panel
    BY <2>1, <2>2, <2>4, QueueOfNone
  <2>. QED BY <2>3, <2>4
<1>7. /\ sv \in Seq(OutMsgs)
      /\ \A w \in Range(sv) : w.op = "ITEM_SAVE" /\ w.item \in dirty
      /\ \A p \in Before(sv) : p[1].op = "ITEM_SAVE"
  <2>1. dirty \ Pended \subseteq Items \cup {Bundle} /\ dirty \ Pended \subseteq dirty
    BY <1>1 DEF ClientTypes
  <2>. QED BY <1>1, <2>1, SavesAre
<1>8. z \in OutMsgs /\ z.op = "ACCOUNT_LOGOUT" /\ Own(z)
  BY DEF OutMsgs, Own
<1> HIDE DEF hd, sv, z
<1>9. <<z>> \in Seq(OutMsgs) /\ Range(<<z>>) = {z} /\ Before(<<z>>) = {}
  BY <1>8, QueueOfOne
<1>10. /\ mid \in Seq(OutMsgs) /\ Range(mid) = Range(hd) \cup Range(sv)
       /\ Before(mid) \subseteq Before(sv) \cup (Range(hd) \X Range(sv))
  BY <1>6, <1>7, QueueCat
<1> HIDE DEF mid
<1>11. /\ ms \in Seq(OutMsgs) /\ Range(ms) = Range(hd) \cup Range(sv) \cup {z}
       /\ Before(ms) \subseteq Before(sv) \cup (Range(hd) \X Range(sv)) \cup (Range(mid) \X {z})
  <2>1. /\ ms \in Seq(OutMsgs) /\ Range(ms) = Range(mid) \cup Range(<<z>>)
        /\ Before(ms) \subseteq Before(mid) \cup Before(<<z>>) \cup (Range(mid) \X Range(<<z>>))
    BY <1>9, <1>10, QueueCat
  <2> HIDE DEF ms
  <2>. QED BY <1>9, <1>10, <2>1
<1> HIDE DEF ms
<1>12. \A p \in Before(ms) : MayFollow(p[1], p[2])
  <2> SUFFICES ASSUME NEW p \in Before(ms) PROVE MayFollow(p[1], p[2])
    OBVIOUS
  <2>1. p[1].op \in {"ITEM_SAVE", "LOGOUT"}
    BY <1>6, <1>7, <1>10, <1>11
  <2>. QED BY <2>1 DEF MayFollow
<1>13. /\ out' \in [Cores -> Seq(OutMsgs)] /\ OutOrder'
       /\ \A d \in Cores : \A w : w \in Sent(d)' <=> w \in Sent(d) \/ (d = c /\ w \in Range(ms))
  <2>1. /\ out' \in [Cores -> Seq(OutMsgs)] /\ \A d \in Cores : d # c => out'[d] = out[d]
        /\ Range(out'[c]) = Range(out[c]) \cup Range(ms)
    BY <1>1, <1>3, <1>11, SendIs
  <2>2. \A m \in Sent(c), w \in Range(ms) : MayFollow(m, w)
    BY <1>5, <1>6, <1>7, <1>8, <1>11 DEF MayFollow
  <2>3. OutOrder'
    BY <1>1, <1>3, <1>11, <1>12, <2>2, SendInOrder
  <2>. QED BY <2>1, <2>3 DEF Sent
<1>14. /\ pend' \in [Cores -> PendRecords]
       /\ \A d \in Cores : /\ pend'[d].items = pend[d].items /\ pend'[d].desc = pend[d].desc
                           /\ Pending(d)' <=> Pending(d)
                           /\ d # c => pend'[d] = pend[d]
  <2>1. CASE ~Pending(c)
    BY <1>1, <1>3, <2>1 DEF CoreTypes, Pending
  <2>2. CASE Pending(c)
    <3>1. pend[c] \in [items : Stock, desc : Nat, bundle : Nat, left : BOOLEAN]
      BY <1>1, <2>2 DEF CoreTypes, PendRecords, Pending
    <3> DEFINE r == [pend[c] EXCEPT !.left = TRUE]
    <3>2. r \in PendRecords /\ r.items = pend[c].items /\ r.desc = pend[c].desc
      BY <3>1 DEF PendRecords
    <3>3. pend' = [pend EXCEPT ![c] = r]
      BY <1>3, <2>2
    <3> HIDE DEF r
    <3>4. pend' \in [Cores -> PendRecords] /\ pend'[c] = r /\ \A d \in Cores : d # c => pend'[d] = pend[d]
      BY <1>1, <3>2, <3>3 DEF CoreTypes
    <3>5. r # NoPend
      BY <2>2, <3>1, <3>2, PendValue DEF PendRecords, Pending
    <3>. QED BY <2>2, <3>2, <3>4, <3>5 DEF Pending
  <2>. QED BY <2>1, <2>2
<1>15. BuildTypeOK'
  <2>1. ClientTypes'
    BY <1>3 DEF ClientTypes
  <2>2. CoreTypes' /\ DatabaseTypes'
    BY <1>1, <1>3, <1>14 DEF CoreTypes, DatabaseTypes, database
  <2>3. MailTypes'
    BY <1>1, <1>3, <1>4, <1>13, <1>14 DEF MailTypes
  <2>. QED BY <2>1, <2>2, <2>3 DEF BuildTypeOK
<1>16. OnePlace' /\ HeldWhilePending'
  <2>1. row' = row /\ shop' = shop /\ Away' = Away
    BY <1>3 DEF database, Away
  <2>. QED BY <1>1, <1>3, <2>1 DEF OnePlace, HeldWhilePending
<1>17. InOrder'
  BY <1>1, <1>3 DEF InOrder
<1>18. HereInv'
  <2>1. here' = Away'
    BY <1>3 DEF Away
  <2>. QED BY <1>3, <2>1 DEF HereInv
<1>19. CoreInv'
  <2> SUFFICES ASSUME NEW d \in Cores PROVE CoreOK(d)'
    BY DEF CoreInv
  <2>1. CoreOK(d) /\ Sent(d) \subseteq Sent(d)' /\ Coming(d)' = Coming(d)
    BY <1>1, <1>3, <1>13 DEF CoreInv, Coming
  <2>. QED BY <1>3, <1>14, <2>1 DEF CoreOK, database
<1>20. OutInv'
  <2> SUFFICES ASSUME NEW d \in Cores, NEW w \in Sent(d)' PROVE OutOK(d, w)'
    BY DEF OutInv
  <2>1. Coming(d)' = Coming(d) /\ playing' = playing /\ shop' = shop /\ last' = last /\ up' = up
    BY <1>3 DEF Coming, database
  <2>2. here' = Away' /\ \A k : ~IsHere(d, k)'
    BY <1>3, BuildAssumption DEF IsHere, Away
  <2>3. CASE w \in Sent(d)
    <3>1. OutOK(d, w)
      BY <1>1, <2>3 DEF OutInv
    <3>. QED BY <1>14, <2>1, <2>2, <3>1 DEF OutOK
  <2>4. CASE d = c /\ w \in Range(hd)
    <3>1. w.op = "LOGOUT" /\ w.desc \in 1 .. last /\ ~Own(w)
      BY <1>4, <1>6, <2>4 DEF Own
    <3>. QED BY <1>4, <2>1, <2>2, <2>4, <3>1 DEF OutOK
  <2>5. CASE d = c /\ w \in Range(sv)
    <3>1. w.op = "ITEM_SAVE" /\ w.item \notin shop.items
      BY <1>5, <1>7, <2>5
    <3>. QED BY <1>4, <2>1, <2>5, <3>1 DEF OutOK
  <2>6. CASE d = c /\ w = z
    BY <1>4, <1>8, <2>1, <2>2, <2>6 DEF OutOK
  <2>. QED BY <1>11, <1>13, <2>3, <2>4, <2>5, <2>6
<1>21. InInv'
  <2> SUFFICES ASSUME NEW d \in Cores, NEW w \in Coming(d)' PROVE InOK(d, w)'
    BY DEF InInv
  <2>1. InOK(d, w) /\ w \in Coming(d)
    BY <1>1, <1>3 DEF InInv, Coming
  <2>2. w.op # "PLAYER_LOAD"
    BY <1>3, <2>1 DEF InOK
  <2>. QED BY <1>3, <1>14, <2>1, <2>2 DEF InOK, Exists, database
<1>22. BindInv'
  <2>1. /\ shop' = shop /\ loads' = loads /\ last' = last /\ up' = up /\ in' = in /\ here' = Away'
    BY <1>3 DEF database, Away
  <2>2. ASSUME NEW d \in Cores, NEW k, Hears(d, k) PROVE Hears(d, k)'
    BY <1>14, <2>1, <2>2 DEF Hears, LoadComes, Accepts, Coming
  <2>3. ASSUME NEW d \in Cores, NEW k, LogsOut(d, k) PROVE LogsOut(d, k)'
    BY <1>13, <2>3 DEF LogsOut
  <2>4. ASSUME NEW k, panel, k = here.desc PROVE LogsOut(c, k)'
    BY <1>6, <1>11, <1>13, <2>4 DEF LogsOut
  <2>5. shop.owner.core \in up => shop.owner.core \in Cores
    BY <1>1 DEF CoreTypes
  <2>6. here = shop.owner => shop.owner.core = c /\ shop.owner.desc = here.desc
    BY <1>2
  <2>7. (shop.owner.core \in up =>
           \/ here = shop.owner /\ panel
           \/ LogsOut(shop.owner.core, shop.owner.desc)
           \/ Hears(shop.owner.core, shop.owner.desc))'
    BY <1>1, <2>1, <2>2, <2>3, <2>4, <2>5, <2>6 DEF BindInv
  <2>. QED BY <1>1, <2>1, <2>7 DEF BindInv
<1>. QED BY <1>13, <1>15, <1>16, <1>17, <1>18, <1>19, <1>20, <1>21, <1>22 DEF BuildInv

\* A core is lost.
LEMMA CrashKeeps ==
    ASSUME BuildInv, NEW c \in Cores, Crash(c)
    PROVE  BuildInv'
<1>1. /\ BuildTypeOK /\ ClientTypes /\ CoreTypes /\ DatabaseTypes /\ MailTypes /\ OnePlace /\ HeldWhilePending
      /\ OutOrder /\ InOrder /\ HereInv /\ CoreInv /\ OutInv /\ InInv /\ BindInv
  BY DEF BuildInv, BuildTypeOK
<1>2. /\ c \in up /\ up' = up \ {c}
      /\ pend' = [pend EXCEPT ![c] = NoPend] /\ stall' = [stall EXCEPT ![c] = NoStall]
      /\ \E n \in 0 .. Len(out[c]) : out' = [out EXCEPT ![c] = SubSeq(out[c], 1, n)]
      /\ in' = [in EXCEPT ![c] = <<>>]
      /\ UNCHANGED database
      /\ IF here.core = c
         THEN here' = Away /\ bag' = {} /\ locked' = {} /\ skip' = {} /\ stack' = 0 /\ dirty' = {} /\ panel' = FALSE
         ELSE UNCHANGED client
  BY DEF Crash
<1>3. /\ out' \in [Cores -> Seq(OutMsgs)] /\ OutOrder'
      /\ \A d \in Cores : Sent(d)' \subseteq Sent(d) /\ (d # c => Sent(d)' = Sent(d))
  <2>1. PICK n \in 0 .. Len(out[c]) : out' = [out EXCEPT ![c] = SubSeq(out[c], 1, n)]
    BY <1>2
  <2> DEFINE q == SubSeq(out[c], 1, n)
  <2>2. q \in Seq(OutMsgs) /\ Range(q) \subseteq Range(out[c]) /\ Before(q) \subseteq Before(out[c])
    BY <1>1, QueuePrefix DEF MailTypes
  <2> HIDE DEF q
  <2>3. out' = [out EXCEPT ![c] = q]
    BY <2>1 DEF q
  <2>4. out' \in [Cores -> Seq(OutMsgs)] /\ out'[c] = q /\ \A d \in Cores : d # c => out'[d] = out[d]
    BY <1>1, <2>2, <2>3 DEF MailTypes
  <2>5. \A d \in Cores : Sent(d)' \subseteq Sent(d) /\ (d # c => Sent(d)' = Sent(d)) /\ Before(out'[d]) \subseteq Before(out[d])
    BY <2>2, <2>4 DEF Sent
  <2>. QED BY <1>1, <2>4, <2>5 DEF OutOrder
<1>4. /\ in' \in [Cores -> Seq(InMsgs)] /\ InOrder'
      /\ \A d \in Cores : \A w \in Coming(d)' : d # c /\ w \in Coming(d)
      /\ \A d \in Cores : d # c => in'[d] = in[d] /\ Coming(d)' = Coming(d)
      /\ in'[c] = <<>>
  <2>1. <<>> \in Seq(InMsgs) /\ Range(<<>>) = {} /\ Before(<<>>) = {}
    BY QueueOfNone
  <2>2. in' \in [Cores -> Seq(InMsgs)] /\ in'[c] = <<>> /\ \A d \in Cores : d # c => in'[d] = in[d]
    BY <1>1, <1>2, <2>1 DEF MailTypes
  <2>3. InOrder'
    BY <1>1, <2>1, <2>2 DEF InOrder
  <2>. QED BY <2>1, <2>2, <2>3 DEF Coming
<1>5. /\ pend' \in [Cores -> PendRecords] /\ stall' \in [Cores -> (SUBSET Items) \cup {NoStall}]
      /\ pend'[c] = NoPend /\ ~Pending(c)'
      /\ \A d \in Cores : d # c => pend'[d] = pend[d] /\ stall'[d] = stall[d] /\ (Pending(d)' <=> Pending(d))
  BY <1>1, <1>2 DEF CoreTypes, PendRecords, Pending
<1>6. /\ here.core = c => here' = Away'
      /\ here = Away => here' = Away'
      /\ here' = Away' => bag' = {} /\ locked' = {} /\ skip' = {} /\ dirty' = {} /\ ~panel'
      /\ here' # Away' => /\ here # Away /\ here.core \in Cores /\ here.core # c
                          /\ here' = here /\ bag' = bag /\ locked' = locked /\ skip' = skip /\ dirty' = dirty
                          /\ panel' = panel /\ stack' = stack
  <2>1. Away' = Away
    BY DEF Away
  <2>2. CASE here.core = c
    BY <1>2, <2>1, <2>2
  <2>3. CASE here.core # c
    <3>1. here' = here /\ bag' = bag /\ locked' = locked /\ skip' = skip /\ dirty' = dirty /\ panel' = panel /\ stack' = stack
      BY <1>2, <2>3 DEF client
    <3>2. here = Away => bag = {} /\ locked = {} /\ skip = {} /\ dirty = {} /\ ~panel
      BY <1>1 DEF HereInv
    <3>. QED BY <1>1, <2>1, <2>3, <3>1, <3>2, HereIs
  <2>. QED BY <2>2, <2>3
<1>7. BuildTypeOK'
  <2>1. ClientTypes'
    <3>1. CASE here.core = c
      <4>1. here' = Away /\ bag' = {} /\ locked' = {} /\ skip' = {} /\ stack' = 0 /\ dirty' = {} /\ panel' = FALSE
        BY <1>2, <3>1
      <4>. QED BY <4>1 DEF ClientTypes
    <3>2. CASE here.core # c
      BY <1>1, <1>2, <3>2 DEF ClientTypes, client
    <3>. QED BY <3>1, <3>2
  <2>2. CoreTypes' /\ DatabaseTypes'
    BY <1>1, <1>2, <1>5 DEF CoreTypes, DatabaseTypes, database
  <2>3. MailTypes'
    BY <1>1, <1>2, <1>3, <1>4, <1>5 DEF MailTypes
  <2>. QED BY <2>1, <2>2, <2>3 DEF BuildTypeOK
<1>8. OnePlace'
  <2>1. row' = row /\ shop' = shop
    BY <1>2 DEF database
  <2>. QED BY <1>1, <1>6, <2>1 DEF OnePlace
<1>9. HeldWhilePending'
  BY <1>1, <1>5, <1>6 DEF HeldWhilePending
<1>10. HereInv'
  <2>1. playing' = playing /\ last' = last /\ shop' = shop /\ Exists' = Exists
    BY <1>2 DEF database, Exists
  <2>2. CASE here' = Away'
    BY <1>6, <2>2 DEF HereInv
  <2>3. CASE here' # Away'
    <3>1. (Accepts(here.core) => Accepts(here.core)') /\ (Pending(here.core)' <=> Pending(here.core))
          /\ pend'[here.core] = pend[here.core] /\ (here.core \in up => here.core \in up')
      BY <1>2, <1>4, <1>5, <1>6, <2>3 DEF Accepts
    <3>2. here' = here /\ bag' = bag /\ locked' = locked /\ skip' = skip /\ dirty' = dirty /\ panel' = panel /\ here # Away
      BY <1>6, <2>3
    <3>. QED BY <1>1, <2>1, <2>3, <3>1, <3>2 DEF HereInv
  <2>. QED BY <2>2, <2>3
<1>11. CoreInv'
  <2> SUFFICES ASSUME NEW d \in Cores PROVE CoreOK(d)'
    BY DEF CoreInv
  <2>1. CASE d = c
    BY <1>2, <1>5, <2>1 DEF CoreOK
  <2>2. CASE d # c
    <3>1. CoreOK(d)
      BY <1>1 DEF CoreInv
    <3>. QED BY <1>2, <1>3, <1>4, <1>5, <2>2, <3>1 DEF CoreOK, database
  <2>. QED BY <2>1, <2>2
<1>12. OutInv'
  <2> SUFFICES ASSUME NEW d \in Cores, NEW w \in Sent(d)' PROVE OutOK(d, w)'
    BY DEF OutInv
  <2>1. OutOK(d, w)
    BY <1>1, <1>3 DEF OutInv
  <2>2. ~IsHere(d, w.desc) => ~IsHere(d, w.desc)'
    BY <1>6, BuildAssumption DEF IsHere, Away
  <2>3. d \in up' => d \in up /\ d # c
    BY <1>2
  <2>. QED BY <1>2, <1>4, <1>5, <1>6, <2>1, <2>2, <2>3 DEF OutOK, database
<1>13. InInv'
  <2> SUFFICES ASSUME NEW d \in Cores, NEW w \in Coming(d)' PROVE InOK(d, w)'
    BY DEF InInv
  <2>1. d # c /\ w \in Coming(d) /\ InOK(d, w)
    BY <1>1, <1>4 DEF InInv
  <2>2. Sent(d)' = Sent(d) /\ Coming(d)' = Coming(d)
    BY <1>3, <1>4, <2>1
  <2>. QED BY <1>2, <1>5, <1>6, <2>1, <2>2 DEF InOK, LoadComes, Exists, database
<1>14. BindInv'
  <2>1. shop' = shop /\ loads' = loads /\ last' = last /\ Exists' = Exists
    BY <1>2 DEF database, Exists
  <2>2. ASSUME NEW d \in Cores, d # c, NEW k PROVE (Hears(d, k) => Hears(d, k)') /\ (LogsOut(d, k) => LogsOut(d, k)')
    <3>1. Sent(d)' = Sent(d) /\ Coming(d)' = Coming(d) /\ pend'[d] = pend[d]
      BY <1>3, <1>4, <1>5, <2>2
    <3>. QED BY <3>1 DEF Hears, LoadComes, Accepts, LogsOut
  <2>3. shop.owner.core \in up' => /\ shop.owner.core \in up /\ shop.owner.core \in Cores /\ shop.owner.core # c
    BY <1>1, <1>2 DEF CoreTypes
  <2>4. here = shop.owner /\ panel /\ shop.owner.core # c => here' = shop.owner /\ panel'
    BY <1>2 DEF client
  <2>5. (shop.owner.core \in up =>
           \/ here = shop.owner /\ panel
           \/ LogsOut(shop.owner.core, shop.owner.desc)
           \/ Hears(shop.owner.core, shop.owner.desc))'
    BY <1>1, <2>1, <2>2, <2>3, <2>4 DEF BindInv
  <2>6. (here # Away =>
           /\ loads # <<>> => Last(loads) = here
           /\ Exists /\ loads = <<>> => shop.owner = here /\ (panel \/ Hears(here.core, here.desc)))'
    BY <1>1, <1>6, <2>1, <2>2 DEF BindInv
  <2>. QED BY <1>1, <2>1, <2>5, <2>6 DEF BindInv
<1>. QED BY <1>3, <1>4, <1>7, <1>8, <1>9, <1>10, <1>11, <1>12, <1>13, <1>14 DEF BuildInv

-----------------------------------------------------------------------------
LEMMA InitHolds == Init => BuildInv
<1> SUFFICES ASSUME Init PROVE BuildInv
  OBVIOUS
<1>1. /\ here = Away /\ bag = {} /\ locked = {} /\ skip = {} /\ stack = 0 /\ dirty = {} /\ panel = FALSE
      /\ pend = [c \in Cores |-> NoPend] /\ stall = [c \in Cores |-> NoStall] /\ up = Cores
      /\ peers = Cores /\ row = [i \in Items |-> "owner"] /\ bundleRow = Bundles
      /\ shop = NoShop /\ loads = <<>> /\ playing = NoCore /\ last = 0
      /\ out = [c \in Cores |-> <<>>] /\ in = [c \in Cores |-> <<>>]
  BY DEF Init
<1>2. \A c \in Cores : /\ Sent(c) = {} /\ Coming(c) = {} /\ Before(out[c]) = {} /\ Before(in[c]) = {}
                       /\ ~Pending(c) /\ stall[c] = NoStall
  BY <1>1, QueueOfNone DEF Sent, Coming, Pending
<1>3. NoShop.items = {} /\ NoShop.host = NoCore /\ NoShop.owner = Away /\ Away.core = NoCore
  BY DEF NoShop, Away
<1>4. ~Exists
  BY <1>1 DEF Exists
<1>5. BuildTypeOK
  <2>1. <<>> \in Seq(Session) /\ <<>> \in Seq(OutMsgs) /\ <<>> \in Seq(InMsgs)
    BY QueueOfNone
  <2>2. NoPend \in PendRecords /\ NoShop \in ShopRecords
    BY DEF PendRecords, ShopRecords
  <2>3. ClientTypes /\ CoreTypes
    BY <1>1, <2>2 DEF ClientTypes, CoreTypes
  <2>4. DatabaseTypes /\ MailTypes
    BY <1>1, <2>1, <2>2, BuildAssumption DEF DatabaseTypes, MailTypes
  <2>. QED BY <2>3, <2>4 DEF BuildTypeOK
<1>6. OnePlace /\ HeldWhilePending
  BY <1>1, <1>3 DEF OnePlace, HeldWhilePending
<1>7. OutOrder /\ InOrder /\ OutInv /\ InInv
  BY <1>2 DEF OutOrder, InOrder, OutInv, InInv
<1>8. HereInv
  BY <1>1 DEF HereInv
<1>9. CoreInv
  BY <1>1, <1>2, <1>3, BuildAssumption DEF CoreInv, CoreOK
<1>10. BindInv
  BY <1>1, <1>3, <1>4, BuildAssumption DEF BindInv
<1>. QED BY <1>5, <1>6, <1>7, <1>8, <1>9, <1>10 DEF BuildInv

\* One step per action of Next.
LEMMA StepKeeps == BuildInv /\ [Next]_vars => BuildInv'
<1> SUFFICES ASSUME BuildInv, [Next]_vars PROVE BuildInv'
  OBVIOUS
<1>1. CASE UNCHANGED vars
  <2>1. /\ UNCHANGED <<here, bag, locked, skip, stack, dirty, panel, pend, stall, up, peers, row, bundleRow>>
        /\ UNCHANGED <<shop, loads, playing, last, out, in>>
    BY <1>1 DEF vars, client, core, database
  <2>2. BuildTypeOK' /\ OnePlace' /\ HeldWhilePending'
    BY <2>1 DEF BuildInv, BuildTypeOK, ClientTypes, CoreTypes, DatabaseTypes, MailTypes, OnePlace, HeldWhilePending
  <2>3. /\ \A c : (Pending(c)' <=> Pending(c)) /\ (Accepts(c)' <=> Accepts(c)) /\ Sent(c)' = Sent(c) /\ Coming(c)' = Coming(c)
        /\ \A c, d : (Hears(c, d)' <=> Hears(c, d)) /\ (LogsOut(c, d)' <=> LogsOut(c, d))
                     /\ (LoadComes(c, d)' <=> LoadComes(c, d)) /\ (IsHere(c, d)' <=> IsHere(c, d))
        /\ Exists' = Exists
    BY <2>1 DEF Pending, Accepts, Sent, Coming, Hears, LogsOut, LoadComes, IsHere, Exists
  <2>4. OutOrder' /\ InOrder'
    BY <2>1 DEF BuildInv, OutOrder, InOrder
  <2>5. HereInv'
    BY <2>1, <2>3 DEF BuildInv, HereInv
  <2>6. CoreInv'
    BY <2>1, <2>3 DEF BuildInv, CoreInv, CoreOK
  <2>7. OutInv'
    BY <2>1, <2>3 DEF BuildInv, OutInv, OutOK
  <2>8. InInv'
    BY <2>1, <2>3 DEF BuildInv, InInv, InOK
  <2>9. BindInv'
    BY <2>1, <2>3 DEF BuildInv, BindInv
  <2>. QED BY <2>2, <2>4, <2>5, <2>6, <2>7, <2>8, <2>9 DEF BuildInv
<1>2. ASSUME NEW i \in Items, Change(i) \/ Give(i) PROVE BuildInv'
  BY <1>2, ItemsKeep
<1>3. CASE Update
  BY <1>3, ItemsKeep
<1>4. ASSUME NEW S \in SUBSET Items, BuildPrivateShop(S) PROVE BuildInv'
  BY <1>4, BuildKeeps
<1>5. CASE Disconnect
  BY <1>5, DisconnectKeeps
<1>6. CASE RESULT_PRIVATE_SHOP_LOAD
  BY <1>6, ShopLoadedKeeps
<1>7. ASSUME NEW c \in Cores, ReadDB(c) PROVE BuildInv'
  <2>1. PICK m : /\ Reads(c, m)
                 /\ BuildPrivateShopResult(c, m) \/ PlayerLoad(c, m) \/ GameLoad(c, m)
    BY <1>7 DEF ReadDB, Reads
  <2>. QED BY <2>1, ResultHereKeeps, ResultAwayKeeps, PlayerKeeps, AnnouncedKeeps, AnnouncedLateKeeps
<1>8. ASSUME NEW c \in Cores, ReadCore(c) PROVE BuildInv'
  <2>1. PICK m : /\ Takes(c, m)
                 /\ \/ QUERY_ITEM_SAVE(m) \/ QUERY_ITEM_DESTROY(m) \/ PrivateShopBuild(c, m)
                    \/ PrivateShopLogout(c, m) \/ QUERY_LOGOUT(m)
    BY <1>8 DEF ReadCore, Takes
  <2>. QED BY <2>1, RowsKeep, CreateKeeps, LogoutKeeps, AccountLogoutKeeps
<1>9. ASSUME NEW c \in Cores, QUERY_PLAYER_LOAD(c) \/ Crash(c) \/ RemovePeer(c) PROVE BuildInv'
  BY <1>9, PlayerLoadAskedKeeps, CrashKeeps, RemovePeerKeeps
<1>. QED BY <1>1, <1>2, <1>3, <1>4, <1>5, <1>6, <1>7, <1>8, <1>9 DEF Next

\* Building a shop keeps what the components know of each other together: the
\* inventory and its locks, the pending build and its answer, the messages on
\* the connections and their order, the shop, its host and the connection it is
\* bound to.  BuildPrivateShop to CInputDB::PrivateShop.
THEOREM BuildInvariant == Spec => []BuildInv
BY InitHolds, StepKeeps, PTL DEF Spec

\* An item is in the shop's rows or in somebody's inventory rows, never in both
\* and never in neither.  PrivateShopBuild, QUERY_ITEM_SAVE.
THEOREM ItemsInOnePlace == Spec => []OnePlace
<1>1. BuildInv => OnePlace
  BY DEF BuildInv
<1>. QED BY <1>1, BuildInvariant, PTL

\* What is locked and unsaved is what the pending build of the connection has.
\* BuildPrivateShopResult, PreservePendingBuild.
THEOREM LockedForTheBuild == Spec => []HeldWhilePending
<1>1. BuildInv => HeldWhilePending
  BY DEF BuildInv
<1>. QED BY <1>1, BuildInvariant, PTL

\* With nothing under way the DB process, the host and the owner agree on the
\* shop.  PrivateShopLogout, CInputDB::PrivateShop (LOAD).
THEOREM ShopCopiesAgree == Spec => []CopiesAgree
<1>1. ASSUME BuildInv, Quiet PROVE CopiesAgree
  <2>1. /\ BuildTypeOK /\ ClientTypes /\ CoreTypes /\ DatabaseTypes /\ HereInv /\ CoreInv /\ BindInv
    BY <1>1 DEF BuildInv, BuildTypeOK
  <2>2. loads = <<>> /\ \A c \in Cores : Sent(c) = {} /\ Coming(c) = {}
    BY <1>1, QueueOfNone DEF Quiet, Sent, Coming
  <2>3. \A c \in Cores : ~Accepts(c) /\ \A d : ~LogsOut(c, d) /\ ~Hears(c, d)
    BY <2>2 DEF Accepts, LogsOut, Hears, LoadComes
  <2>4. \A c \in up : /\ c \in Cores /\ ~Pending(c)
                      /\ stall[c] = IF shop.host = c THEN shop.items ELSE NoStall
    BY <2>1, <2>2 DEF CoreTypes, CoreInv, CoreOK
  <2>5. shop.owner.core \in up => shop.owner = here
    BY <2>1, <2>3, <2>4 DEF BindInv
  <2>6. here # Away => here.core \in Cores /\ (panel => Exists) /\ (Exists => panel /\ shop.owner = here)
    BY <2>1, <2>2, <2>3, HereIs DEF BindInv, HereInv
  <2>7. here # Away => panel = Exists
    BY <2>1, <2>6 DEF ClientTypes, Exists
  <2>. QED BY <2>4, <2>5, <2>6, <2>7 DEF CopiesAgree
<1>2. BuildInv => CopiesAgree
  BY <1>1 DEF CopiesAgree
<1>. QED BY <1>2, BuildInvariant, PTL
=============================================================================
