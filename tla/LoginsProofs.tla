----------------------------- MODULE LoginsProofs -----------------------------
(***************************************************************************)
(* The invariants of Logins, for any number of cores, keys and             *)
(* connections: how many may have something of a session, and, as long as  *)
(* the sessions are orderly, what is saved and loaded of the character.    *)
(***************************************************************************)
EXTENDS Logins, DataLemmas

Phases == {"unused", "login", "select", "game", "gone"}
ConnRecords ==
    [core : Cores \cup {NoCore}, key : Nat, phase : Phases,
     char : SUBSET Changes, client : BOOLEAN, timer : BOOLEAN]
LoginRecords == [play : BOOLEAN, handle : Cores \cup {NoCore}, players : BOOLEAN]
Requests == [op : {"LOGIN_BY_KEY", "LOGOUT", "PLAYER_LOAD", "PLAYER_SAVE"},
             conn : Conns, key : Nat, char : SUBSET Changes]
Answers == [op : {"LOGIN_SUCCESS", "LOGIN_ALREADY", "LOGIN_NOT_EXIST", "PLAYER_LOAD_SUCCESS", "PLAYER_LOAD_FAILED"},
            conn : Conns, key : Nat, char : SUBSET Changes]
Queries == [op : {"LOGIN", "PLAYER"}, core : Cores, conn : Conns, char : SUBSET Changes]

CoreTypes ==
    /\ conn \in [Conns -> ConnRecords] /\ name \in [Cores -> 0 .. NumConns]
    /\ up \subseteq peers /\ peers \subseteq Cores /\ kicks \subseteq Cores
DatabaseTypes ==
    /\ key \in 0 .. NumKeys /\ login \in [Keys -> LoginRecords] /\ logon \in 0 .. key
    /\ cache \in (SUBSET Changes) \cup {NoCache} /\ row \subseteq Changes /\ leaving \in BOOLEAN
    /\ made \subseteq Changes /\ dropped \in Nat /\ overtaken \in BOOLEAN /\ budget \in [Kinds -> Nat]
MailTypes == out \in [Cores -> Seq(Requests)] /\ in \in [Cores -> Seq(Answers)] /\ sql \in Seq(Queries)
LoginsTypeOK == CoreTypes /\ DatabaseTypes /\ MailTypes

-----------------------------------------------------------------------------
\* What is under way.
Sent(c) == Range(out[c])
Coming(c) == Range(in[c])
Asked == Range(sql)
ToDB == UNION {Sent(c) : c \in Cores}
ToCores == UNION {Coming(c) : c \in Cores}
Mail == ToDB \cup ToCores \cup Asked

Used(h) == conn[h].phase # "unused"
Home(h) == conn[h].core
ConnInv ==
    /\ \A h \in Conns : /\ Used(h) => Home(h) \in Cores /\ conn[h].key \in 1 .. key
                        /\ ~Playing(h) => conn[h].char = {}
                        /\ Open(h) => Home(h) \in up
    /\ \A c \in Cores : name[c] # 0 => Bound(name[c]) /\ Home(name[c]) = c

\* Each message is on the connection of its descriptor's core.
Located ==
    /\ \A c \in Cores : \A m \in Sent(c) \cup Coming(c) : Home(m.conn) = c
    /\ \A q \in Asked : Home(q.conn) = q.core
    /\ \A c \in Cores : (c \notin up => in[c] = <<>>) /\ (c \notin peers => out[c] = <<>>)

\* What has been sent for a connection: the logout when it is gone, and characters
\* that are part of the one it plays.  A save is half of a move to another channel
\* when it follows the logout.
IsSave(m) == m.op = "PLAYER_SAVE"
Half(m) == IsSave(m) /\ m.key # 0
IsLoad(m) == m.op \in {"PLAYER", "PLAYER_LOAD_SUCCESS"}
Late == {"LOGOUT", "PLAYER_LOAD", "PLAYER_SAVE", "PLAYER", "PLAYER_LOAD_SUCCESS"}
Timely(m) ==
    /\ Used(m.conn)
    /\ m.op \in Late => conn[m.conn].phase # "login"
    /\ m.op = "LOGOUT" \/ Half(m) => conn[m.conn].phase = "gone"
    /\ IsSave(m) => conn[m.conn].phase # "select"
    /\ IsSave(m) /\ Playing(m.conn) => m.char \subseteq conn[m.conn].char
MailInv == \A m \in Mail : Timely(m)

\* Of one connection: one login, one logout, no full save after it, saves that grow.
MayFollow(m, w) == m.conn = w.conn =>
    /\ ~(m.op = "LOGIN_BY_KEY" /\ w.op = "LOGIN_BY_KEY")
    /\ m.op = "LOGOUT" => w.op # "LOGOUT" /\ (IsSave(w) => Half(w))
    /\ IsSave(m) /\ IsSave(w) => ~Half(m) /\ m.char \subseteq w.char
MayAnswer(m, w) == m.op = "LOGIN_SUCCESS" /\ w.op = "LOGIN_SUCCESS" => m.conn # w.conn
MayResult(m, w) == m.op = "LOGIN" /\ w.op = "LOGIN" => m.conn # w.conn
OutOrder == \A c \in Cores : \A p \in Before(out[c]) : MayFollow(p[1], p[2])
InOrder == \A c \in Cores : \A p \in Before(in[c]) : MayAnswer(p[1], p[2])
SqlOrder == \A p \in Before(sql) : MayResult(p[1], p[2])
Ends(m, w) == m.op = "LOGOUT" /\ m.conn = w.conn
HalfOrder == \A c \in Cores : \A n \in 1 .. Len(out[c]) : Half(out[c][n]) => n = 1 \/ Ends(out[c][n - 1], out[c][n])
Order == OutOrder /\ InOrder /\ SqlOrder /\ HalfOrder

\* A login under way is all there is of its connection.
Solo == {"LOGIN_BY_KEY", "LOGIN", "LOGIN_SUCCESS"}
SoloInv == \A m \in Mail : m.op \in Solo =>
    ~Bound(m.conn) /\ \A w \in Mail : w.conn = m.conn => w.op = m.op

\* Each session that is not over has the logon, for all that its core tells, or had
\* one that was dropped.
HasLogon(h) == logon # 0 /\ login[logon].handle = Home(h)
Claimants == {h \in Conns : Unfinished(h)}
Strangers == {h \in Claimants : ~HasLogon(h)}
CountInv ==
    /\ Cardinality(Claimants) <= dropped + (IF logon = 0 THEN 0 ELSE 1)
    /\ Cardinality(Strangers) <= dropped

\* While a move to another channel is half read nobody plays, and nobody is about to.
HalfInv == \A c \in Cores : HalfRead(c) =>
    /\ \A h \in Conns : ~Playing(h)
    /\ \A m, w \in Mail : IsSave(m) /\ IsSave(w) => m = w
    /\ \A m \in Mail : IsLoad(m) => conn[m.conn].phase # "select"

\* The saves under way and who plays have what is saved, and together they have all
\* that was made.  So has what is being loaded.
ChainInv ==
    /\ \A m \in Mail : IsSave(m) => Saved \subseteq m.char
    /\ \A h \in Conns : Playing(h) => Saved \subseteq conn[h].char
Kept(e) == \/ e \in Saved
           \/ \E h \in Conns : e \in conn[h].char
           \/ \E m \in Mail : IsSave(m) /\ e \in m.char
HeldInv == \A e \in made : Kept(e)
LoadInv == \A m \in Mail : IsLoad(m) /\ conn[m.conn].phase = "select" => (Saved \cup made) \subseteq m.char
CharInv == HalfInv /\ ChainInv /\ HeldInv /\ LoadInv

SessionInv == LoginsTypeOK /\ ConnInv /\ Located /\ MailInv /\ Order /\ SoloInv /\ CountInv
LoginsInv == SessionInv /\ (Orderly => CharInv)

-----------------------------------------------------------------------------
LEMMA MailIs ==
    \A m : /\ m \in ToDB <=> \E c \in Cores : m \in Sent(c)
           /\ m \in ToCores <=> \E c \in Cores : m \in Coming(c)
           /\ m \in Mail <=> m \in ToDB \/ m \in ToCores \/ m \in Asked
BY Zenon DEF ToDB, ToCores, Mail

LEMMA MailTyped ==
    ASSUME MailTypes
    PROVE  /\ ToDB \subseteq Requests /\ ToCores \subseteq Answers /\ Asked \subseteq Queries
           /\ \A c \in Cores : Sent(c) \subseteq ToDB /\ Coming(c) \subseteq ToCores
           /\ \A m \in Mail : m.conn \in Conns /\ m.char \subseteq Changes
           /\ \A m \in ToDB : m.op \in {"LOGIN_BY_KEY", "LOGOUT", "PLAYER_LOAD", "PLAYER_SAVE"} /\ m.key \in Nat
           /\ \A m \in ToCores : m.op \in {"LOGIN_SUCCESS", "LOGIN_ALREADY", "LOGIN_NOT_EXIST", "PLAYER_LOAD_SUCCESS", "PLAYER_LOAD_FAILED"}
           /\ \A m \in Asked : m.op \in {"LOGIN", "PLAYER"} /\ m.core \in Cores
<1>1. \A c \in Cores : Sent(c) \subseteq Requests /\ Coming(c) \subseteq Answers
  BY RangeIs DEF MailTypes, Sent, Coming
<1>2. Asked \subseteq Queries
  BY RangeIs DEF MailTypes, Asked
<1>3. ToDB \subseteq Requests /\ ToCores \subseteq Answers
  BY <1>1, MailIs
<1>4. \A c \in Cores : Sent(c) \subseteq ToDB /\ Coming(c) \subseteq ToCores
  BY MailIs
<1>5. /\ \A m \in Requests : /\ m.conn \in Conns /\ m.char \subseteq Changes /\ m.key \in Nat
                             /\ m.op \in {"LOGIN_BY_KEY", "LOGOUT", "PLAYER_LOAD", "PLAYER_SAVE"}
      /\ \A m \in Answers : /\ m.conn \in Conns /\ m.char \subseteq Changes
                            /\ m.op \in {"LOGIN_SUCCESS", "LOGIN_ALREADY", "LOGIN_NOT_EXIST", "PLAYER_LOAD_SUCCESS", "PLAYER_LOAD_FAILED"}
      /\ \A m \in Queries : m.conn \in Conns /\ m.char \subseteq Changes /\ m.op \in {"LOGIN", "PLAYER"} /\ m.core \in Cores
  BY DEF Requests, Answers, Queries
<1>. QED BY <1>2, <1>3, <1>4, <1>5, MailIs

\* Messages added to what a core has sent.
Sends(c, ms) == out' = [out EXCEPT ![c] = @ \o ms]
LEMMA SendsIs ==
    ASSUME MailTypes, OutOrder, HalfOrder, NEW c \in Cores, NEW ms \in Seq(Requests), Sends(c, ms),
           \A m \in Sent(c), w \in Range(ms) : MayFollow(m, w),
           \A p \in Before(ms) : MayFollow(p[1], p[2]),
           \A n \in 1 .. Len(ms) : Half(ms[n]) => n > 1 /\ Ends(ms[n - 1], ms[n])
    PROVE  /\ out' \in [Cores -> Seq(Requests)] /\ OutOrder' /\ HalfOrder'
           /\ \A d \in Cores : Sent(d)' = IF d = c THEN Sent(d) \cup Range(ms) ELSE Sent(d)
           /\ ToDB' = ToDB \cup Range(ms)
           /\ \A d \in Cores : HalfRead(d)' <=> HalfRead(d)
<1> DEFINE q == out[c]
           s == q \o ms
<1>1. q \in Seq(Requests)
  BY DEF MailTypes
<1>2. s \in Seq(Requests) /\ Range(s) = Range(q) \cup Range(ms)
      /\ Before(s) \subseteq Before(q) \cup Before(ms) \cup (Range(q) \X Range(ms))
  BY <1>1, QueueCat
<1>3. /\ Len(s) = Len(q) + Len(ms) /\ Len(q) \in Nat /\ Len(ms) \in Nat
      /\ \A n \in 1 .. Len(s) : s[n] = IF n <= Len(q) THEN q[n] ELSE ms[n - Len(q)]
  BY <1>1, ConcatProperties
<1>4. out' = [out EXCEPT ![c] = s]
  BY DEF Sends
<1> HIDE DEF s
<1>5. out' \in [Cores -> Seq(Requests)] /\ out'[c] = s /\ \A d \in Cores : d # c => out'[d] = out[d]
  BY <1>2, <1>4 DEF MailTypes
<1>6. \A d \in Cores : Sent(d)' = IF d = c THEN Sent(d) \cup Range(ms) ELSE Sent(d)
  BY <1>2, <1>5 DEF Sent
<1>7. \A p \in Before(s) : MayFollow(p[1], p[2])
  <2>1. \A p \in Before(q) : MayFollow(p[1], p[2])
    BY DEF OutOrder
  <2>2. \A m \in Range(q), w \in Range(ms) : MayFollow(m, w)
    BY DEF Sent
  <2>. QED BY <1>2, <2>1, <2>2
<1>8. OutOrder'
  BY <1>5, <1>7 DEF OutOrder
<1>9. \A n \in 1 .. Len(s) : Half(s[n]) => n = 1 \/ Ends(s[n - 1], s[n])
  <2>1. SUFFICES ASSUME NEW n \in 1 .. Len(s), Half(s[n]), n # 1 PROVE Ends(s[n - 1], s[n])
    OBVIOUS
  <2>2. CASE n <= Len(q)
    <3>1. n \in 1 .. Len(q) /\ n - 1 \in 1 .. Len(s) /\ n - 1 <= Len(q)
      BY <1>3, <2>1, <2>2
    <3>2. s[n] = q[n] /\ s[n - 1] = q[n - 1]
      BY <1>3, <2>2, <3>1
    <3>. QED BY <2>1, <3>1, <3>2 DEF HalfOrder
  <2>3. CASE n > Len(q)
    <3>1. n - Len(q) \in 1 .. Len(ms) /\ s[n] = ms[n - Len(q)]
      BY <1>3, <2>3
    <3>2. n - Len(q) > 1 /\ Ends(ms[n - Len(q) - 1], s[n])
      BY <2>1, <3>1
    <3>3. n - 1 \in 1 .. Len(s) /\ ~(n - 1 <= Len(q)) /\ (n - 1) - Len(q) = n - Len(q) - 1
      BY <1>3, <3>1, <3>2
    <3>4. s[n - 1] = ms[(n - 1) - Len(q)]
      BY <1>3, <3>3
    <3>. QED BY <3>2, <3>3, <3>4
  <2>. QED BY <1>3, <2>2, <2>3
<1>10. HalfOrder'
  BY <1>5, <1>9 DEF HalfOrder
<1>11. ToDB' = ToDB \cup Range(ms)
  <2>1. \A m : m \in ToDB' <=> \E d \in Cores : m \in Sent(d)'
    BY Zenon DEF ToDB
  <2>. QED BY <1>6, <2>1, MailIs
<1>12. \A d \in Cores : HalfRead(d)' <=> HalfRead(d)
  <2>1. HalfRead(c)' <=> HalfRead(c)
    <3>1. CASE q # <<>>
      <4>1. Len(q) > 0 /\ s # <<>> /\ Head(s) = s[1] /\ Head(q) = q[1] /\ s[1] = q[1]
        BY <1>1, <1>2, <1>3, <3>1
      <4>. QED BY <1>5, <3>1, <4>1 DEF HalfRead
    <3>2. CASE q = <<>> /\ ms # <<>>
      <4>1. Len(ms) > 0 /\ Len(q) = 0 /\ s # <<>> /\ Head(s) = s[1] /\ s[1] = ms[1] /\ 1 \in 1 .. Len(ms)
        BY <1>1, <1>2, <1>3, <3>2
      <4>2. ~Half(ms[1])
        BY <4>1
      <4>. QED BY <1>5, <3>2, <4>1, <4>2 DEF HalfRead, Half, IsSave
    <3>3. CASE q = <<>> /\ ms = <<>>
      <4>1. s = <<>>
        BY <1>2, <1>3, <3>3
      <4>. QED BY <1>5, <3>3, <4>1 DEF HalfRead
    <3>. QED BY <3>1, <3>2, <3>3
  <2>2. \A d \in Cores : d # c => (HalfRead(d)' <=> HalfRead(d))
    BY <1>5 DEF HalfRead
  <2>. QED BY <2>1, <2>2
<1>. QED BY <1>5, <1>6, <1>8, <1>10, <1>11, <1>12

LEMMA SendIs ==
    ASSUME MailTypes, OutOrder, HalfOrder, NEW c \in Cores, NEW m \in Requests, out' = [out EXCEPT ![c] = Append(@, m)],
           \A w \in Sent(c) : MayFollow(w, m), ~Half(m)
    PROVE  /\ out' \in [Cores -> Seq(Requests)] /\ OutOrder' /\ HalfOrder'
           /\ \A d \in Cores : Sent(d)' = IF d = c THEN Sent(d) \cup {m} ELSE Sent(d)
           /\ ToDB' = ToDB \cup {m}
           /\ \A d \in Cores : HalfRead(d)' <=> HalfRead(d)
<1> DEFINE ms == <<m>>
<1>1. ms \in Seq(Requests) /\ Range(ms) = {m} /\ Before(ms) = {}
  BY QueueOfOne
<1>2. Len(ms) = 1 /\ ms[1] = m /\ out[c] \in Seq(Requests)
  BY DEF MailTypes
<1>3. Append(out[c], m) = out[c] \o ms
  BY <1>2
<1>4. Sends(c, ms)
  BY <1>3 DEF Sends
<1> HIDE DEF ms
<1>. QED BY <1>1, <1>2, <1>4, SendsIs

\* The first message of a core is read.
LEMMA ReadIs ==
    ASSUME MailTypes, OutOrder, HalfOrder, NEW c \in Cores, NEW x, out[c] # <<>>, x = Head(out[c]), out' = [out EXCEPT ![c] = Tail(@)]
    PROVE  /\ out' \in [Cores -> Seq(Requests)] /\ OutOrder' /\ HalfOrder' /\ x \in Sent(c) /\ x \in ToDB
           /\ \A d \in Cores : d # c => Sent(d)' = Sent(d) /\ (HalfRead(d)' <=> HalfRead(d))
           /\ Sent(c) = {x} \cup Sent(c)' /\ ToDB' \subseteq ToDB /\ ToDB = {x} \cup ToDB'
           /\ \A w \in Sent(c)' : MayFollow(x, w)
           /\ HalfRead(c)' => Ends(x, Head(out[c])') /\ ~HalfRead(c)
<1> DEFINE q == out[c]
           t == Tail(q)
<1>1. q \in Seq(Requests) /\ q # <<>>
  BY DEF MailTypes
<1>2. /\ t \in Seq(Requests) /\ Head(q) \in Requests /\ Range(q) = {Head(q)} \cup Range(t)
      /\ Before(t) \subseteq Before(q) /\ \A m \in Range(t) : <<Head(q), m>> \in Before(q)
  BY <1>1, QueueTail
<1>3. /\ Len(t) = Len(q) - 1 /\ Len(q) \in Nat /\ Len(q) > 0 /\ Head(q) = q[1]
      /\ \A n \in 1 .. Len(t) : t[n] = q[n + 1]
  BY <1>1
<1>4. out' = [out EXCEPT ![c] = t]
  OBVIOUS
<1> HIDE DEF t
<1>5. out' \in [Cores -> Seq(Requests)] /\ out'[c] = t /\ \A d \in Cores : d # c => out'[d] = out[d]
  BY <1>2, <1>4 DEF MailTypes
<1>6. /\ \A d \in Cores : d # c => Sent(d)' = Sent(d) /\ (HalfRead(d)' <=> HalfRead(d))
      /\ Sent(c) = {x} \cup Sent(c)'
  BY <1>2, <1>5 DEF Sent, HalfRead
<1>7. OutOrder'
  BY <1>2, <1>5 DEF OutOrder
<1>8. \A w \in Sent(c)' : MayFollow(x, w)
  <2>1. ASSUME NEW w \in Range(t) PROVE MayFollow(x, w)
    <3>1. <<x, w>> \in Before(q) /\ <<x, w>>[1] = x /\ <<x, w>>[2] = w
      BY <1>2
    <3>. QED BY <3>1 DEF OutOrder
  <2>. QED BY <1>5, <2>1 DEF Sent
<1>9. \A n \in 1 .. Len(t) : n > 1 /\ Half(t[n]) => Ends(t[n - 1], t[n])
  <2>1. SUFFICES ASSUME NEW n \in 1 .. Len(t), n > 1, Half(t[n]) PROVE Ends(t[n - 1], t[n])
    OBVIOUS
  <2>2. n - 1 \in 1 .. Len(t) /\ n + 1 \in 1 .. Len(q) /\ (n - 1) + 1 = n /\ (n + 1) - 1 = n /\ n + 1 # 1
    BY <1>3, <2>1
  <2>3. t[n] = q[n + 1] /\ t[n - 1] = q[n]
    BY <1>3, <2>2
  <2>. QED BY <2>1, <2>2, <2>3 DEF HalfOrder
<1>10. HalfOrder'
  <2>1. \A n \in 1 .. Len(t) : n = 1 \/ n > 1
    BY <1>3
  <2>. QED BY <1>5, <1>9, <2>1 DEF HalfOrder
<1>11. HalfRead(c)' => Ends(x, Head(out[c])') /\ ~HalfRead(c)
  <2>1. SUFFICES ASSUME t # <<>>, Half(Head(t)) PROVE Ends(x, Head(t))
    BY <1>5 DEF HalfRead, Half, IsSave, Ends
  <2>2. Len(t) > 0 /\ Head(t) = t[1]
    BY <1>2, <2>1
  <2>3. 1 \in 1 .. Len(t) /\ 2 \in 1 .. Len(q)
    BY <1>3, <2>2
  <2>4. t[1] = q[2] /\ 2 - 1 = 1
    BY <1>3, <2>3
  <2>. QED BY <1>3, <2>1, <2>2, <2>3, <2>4 DEF HalfOrder, Ends
<1>12. x \in Sent(c) /\ x \in ToDB
  BY <1>6, MailIs
<1>13. ToDB' \subseteq ToDB /\ ToDB = {x} \cup ToDB'
  <2>1. \A m : m \in ToDB' <=> \E d \in Cores : m \in Sent(d)'
    BY Zenon DEF ToDB
  <2>. QED BY <1>6, <2>1, MailIs
<1>. QED BY <1>5, <1>6, <1>7, <1>8, <1>10, <1>11, <1>12, <1>13

\* An answer: a core that is gone reads nothing.
LEMMA TellIs ==
    ASSUME MailTypes, InOrder, NEW c \in Cores, NEW m \in Answers, Tell(c, m), \A w \in Coming(c) : MayAnswer(w, m)
    PROVE  /\ in' \in [Cores -> Seq(Answers)] /\ InOrder'
           /\ \A d \in Cores : Coming(d)' = IF d = c /\ c \in up THEN Coming(d) \cup {m} ELSE Coming(d)
           /\ ToCores' = IF c \in up THEN ToCores \cup {m} ELSE ToCores
           /\ \A d \in Cores \ up : in'[d] = in[d]
<1> DEFINE q == in[c]
           s == Append(q, m)
<1>1. q \in Seq(Answers)
  BY DEF MailTypes
<1>2. s \in Seq(Answers) /\ Range(s) = Range(q) \cup {m} /\ Before(s) \subseteq Before(q) \cup (Range(q) \X {m})
  BY <1>1, QueueAppend
<1>3. in' = IF c \in up THEN [in EXCEPT ![c] = s] ELSE in
  BY DEF Tell
<1> HIDE DEF s
<1>4. /\ in' \in [Cores -> Seq(Answers)] /\ \A d \in Cores : d # c \/ c \notin up => in'[d] = in[d]
      /\ c \in up => in'[c] = s
  BY <1>2, <1>3 DEF MailTypes
<1>5. \A d \in Cores : Coming(d)' = IF d = c /\ c \in up THEN Coming(d) \cup {m} ELSE Coming(d)
  BY <1>2, <1>4 DEF Coming
<1>6. c \in up => \A p \in Before(s) : MayAnswer(p[1], p[2])
  BY <1>2 DEF InOrder, Coming
<1>7. InOrder'
  BY <1>4, <1>6 DEF InOrder
<1>8. ToCores' = IF c \in up THEN ToCores \cup {m} ELSE ToCores
  <2>1. \A w : w \in ToCores' <=> \E d \in Cores : w \in Coming(d)'
    BY Zenon DEF ToCores
  <2>. QED BY <1>5, <2>1, MailIs
<1>. QED BY <1>4, <1>5, <1>7, <1>8

\* The first answer to a core is read.
LEMMA HearIs ==
    ASSUME MailTypes, InOrder, NEW c \in Cores, NEW x, in[c] # <<>>, x = Head(in[c]), in' = [in EXCEPT ![c] = Tail(@)]
    PROVE  /\ in' \in [Cores -> Seq(Answers)] /\ InOrder' /\ x \in Coming(c) /\ x \in ToCores
           /\ \A d \in Cores : d # c => in'[d] = in[d] /\ Coming(d)' = Coming(d)
           /\ Coming(c) = {x} \cup Coming(c)' /\ ToCores' \subseteq ToCores /\ ToCores = {x} \cup ToCores'
           /\ \A w \in Coming(c)' : MayAnswer(x, w)
<1> DEFINE q == in[c]
           t == Tail(q)
<1>1. q \in Seq(Answers) /\ q # <<>>
  BY DEF MailTypes
<1>2. /\ t \in Seq(Answers) /\ Range(q) = {Head(q)} \cup Range(t)
      /\ Before(t) \subseteq Before(q) /\ \A m \in Range(t) : <<Head(q), m>> \in Before(q)
  BY <1>1, QueueTail
<1>3. in' = [in EXCEPT ![c] = t]
  OBVIOUS
<1> HIDE DEF t
<1>4. in' \in [Cores -> Seq(Answers)] /\ in'[c] = t /\ \A d \in Cores : d # c => in'[d] = in[d]
  BY <1>2, <1>3 DEF MailTypes
<1>5. (\A d \in Cores : d # c => Coming(d)' = Coming(d)) /\ Coming(c) = {x} \cup Coming(c)'
  BY <1>2, <1>4 DEF Coming
<1>6. InOrder'
  BY <1>2, <1>4 DEF InOrder
<1>7. \A w \in Coming(c)' : MayAnswer(x, w)
  <2>1. ASSUME NEW w \in Range(t) PROVE MayAnswer(x, w)
    <3>1. <<x, w>> \in Before(q) /\ <<x, w>>[1] = x /\ <<x, w>>[2] = w
      BY <1>2
    <3>. QED BY <3>1 DEF InOrder
  <2>. QED BY <1>4, <2>1 DEF Coming
<1>8. ToCores' \subseteq ToCores /\ ToCores = {x} \cup ToCores'
  <2>1. \A m : m \in ToCores' <=> \E d \in Cores : m \in Coming(d)'
    BY Zenon DEF ToCores
  <2>. QED BY <1>5, <2>1, MailIs
<1>9. x \in Coming(c) /\ x \in ToCores
  BY <1>5, MailIs
<1>. QED BY <1>4, <1>5, <1>6, <1>7, <1>8, <1>9

\* A query is added, or its result is there.
LEMMA AskIs ==
    ASSUME MailTypes, SqlOrder, NEW q \in Queries, sql' = Append(sql, q), \A w \in Asked : MayResult(w, q)
    PROVE  sql' \in Seq(Queries) /\ SqlOrder' /\ Asked' = Asked \cup {q}
<1>1. /\ Append(sql, q) \in Seq(Queries) /\ Range(Append(sql, q)) = Range(sql) \cup {q}
      /\ Before(Append(sql, q)) \subseteq Before(sql) \cup (Range(sql) \X {q})
  BY QueueAppend DEF MailTypes
<1> DEFINE s == Append(sql, q)
<1> HIDE DEF s
<1>2. s \in Seq(Queries) /\ Range(s) = Range(sql) \cup {q} /\ Before(s) \subseteq Before(sql) \cup (Range(sql) \X {q}) /\ sql' = s
  BY <1>1 DEF s
<1>3. \A p \in Before(s) : MayResult(p[1], p[2])
  BY <1>2 DEF SqlOrder, Asked
<1>. QED BY <1>2, <1>3 DEF SqlOrder, Asked

LEMMA ResultIs ==
    ASSUME MailTypes, SqlOrder, NEW x, sql # <<>>, x = Head(sql), sql' = Tail(sql)
    PROVE  /\ sql' \in Seq(Queries) /\ SqlOrder' /\ x \in Asked
           /\ Asked = {x} \cup Asked' /\ \A w \in Asked' : MayResult(x, w)
<1> DEFINE t == Tail(sql)
<1>1. /\ t \in Seq(Queries) /\ Range(sql) = {Head(sql)} \cup Range(t)
      /\ Before(t) \subseteq Before(sql) /\ \A m \in Range(t) : <<Head(sql), m>> \in Before(sql)
  BY QueueTail DEF MailTypes
<1> HIDE DEF t
<1>2. SqlOrder' /\ Asked = {x} \cup Asked'
  BY <1>1 DEF SqlOrder, Asked, t
<1>3. \A w \in Range(t) : MayResult(x, w)
  <2>1. ASSUME NEW w \in Range(t) PROVE MayResult(x, w)
    <3>1. <<x, w>> \in Before(sql) /\ <<x, w>>[1] = x /\ <<x, w>>[2] = w
      BY <1>1
    <3>. QED BY <3>1 DEF SqlOrder
  <2>. QED BY <2>1
<1>. QED BY <1>1, <1>2, <1>3 DEF Asked, t
-----------------------------------------------------------------------------
\* Sessions that are not over.

LEMMA KeyIs ==
    ASSUME DatabaseTypes
    PROVE  /\ logon # 0 => logon \in Keys /\ logon \in 1 .. key
           /\ key # 0 => key \in Keys
           /\ key \in Nat /\ logon \in Nat /\ Keys \subseteq Nat /\ \A k \in 1 .. key : k \in Keys
BY LoginAssumption DEF DatabaseTypes, Keys

LEMMA OrderlyIs == ASSUME DatabaseTypes, dropped <= dropped', dropped' \in Nat, overtaken => overtaken', Orderly' PROVE Orderly
BY DEF Orderly, DatabaseTypes

\* What a session that is not over has under way.
Claims(m) == m.op \in {"LOGIN_SUCCESS", "LOGOUT"} \/ (IsSave(m) /\ ~Half(m))

UnfinishedMeans == \A h : Unfinished(h) <=> Bound(h) \/ \E m \in Mail : m.conn = h /\ Claims(m)
LEMMA UnfinishedIs == MailTypes => UnfinishedMeans
<1> SUFFICES ASSUME MailTypes, NEW h PROVE Unfinished(h) <=> Bound(h) \/ \E m \in Mail : m.conn = h /\ Claims(m)
  BY DEF UnfinishedMeans
<1>1. \A c \in Cores : /\ Sent(c) = {out[c][n] : n \in DOMAIN out[c]}
                       /\ Coming(c) = {in[c][n] : n \in DOMAIN in[c]}
  BY DEF Sent, Coming, Range
<1>2. \A m : LastWords(m) <=> m.op = "LOGOUT" \/ (IsSave(m) /\ ~Half(m))
  BY DEF LastWords, IsSave, Half
<1>3. ASSUME NEW m \in Mail, m.conn = h, Claims(m) PROVE Unfinished(h)
  <2>1. CASE m.op = "LOGIN_SUCCESS"
    <3>1. m \in ToCores
      <4>1. m \notin ToDB /\ m \notin Asked
        BY <2>1, MailTyped
      <4>. QED BY <4>1, MailIs
    <3>2. PICK c \in Cores : m \in Coming(c)
      BY <3>1, MailIs
    <3>. QED BY <1>1, <1>3, <2>1, <3>2 DEF Unfinished
  <2>2. CASE m.op # "LOGIN_SUCCESS"
    <3>1. m \in ToDB /\ LastWords(m)
      BY <1>2, <1>3, <2>2, MailTyped, MailIs DEF Claims, IsSave
    <3>2. PICK c \in Cores : m \in Sent(c)
      BY <3>1, MailIs
    <3>. QED BY <1>1, <1>3, <3>1, <3>2 DEF Unfinished
  <2>. QED BY <2>1, <2>2
<1>4. ASSUME NEW c \in Cores, NEW n \in DOMAIN in[c], in[c][n].conn = h, in[c][n].op = "LOGIN_SUCCESS"
      PROVE  \E m \in Mail : m.conn = h /\ Claims(m)
  BY <1>1, <1>4, MailIs DEF Claims
<1>5. ASSUME NEW c \in Cores, NEW n \in DOMAIN out[c], out[c][n].conn = h, LastWords(out[c][n])
      PROVE  \E m \in Mail : m.conn = h /\ Claims(m)
  BY <1>1, <1>2, <1>5, MailIs DEF Claims
<1>. QED BY <1>3, <1>4, <1>5 DEF Unfinished

LEMMA UnfinishedNext == MailTypes' => UnfinishedMeans'
BY UnfinishedIs, PTL

LEMMA ClaimantsAre ==
    /\ \A S \in SUBSET Conns : IsFiniteSet(S) /\ Cardinality(S) \in Nat
    /\ \A S \in SUBSET Conns : \A T \in SUBSET S : Cardinality(T) <= Cardinality(S)
    /\ \A S \in SUBSET Conns : \A h \in S : Cardinality(S \ {h}) = Cardinality(S) - 1
    /\ \A S \in SUBSET Conns : \A h \in Conns : Cardinality(S \cup {h}) <= Cardinality(S) + 1
    /\ \A S \in SUBSET Conns : \A g, h \in S : g # h => Cardinality(S) > 1
<1>1. IsFiniteSet(Conns)
  BY FS_Interval, LoginAssumption DEF Conns
<1>2. \A S \in SUBSET Conns : IsFiniteSet(S)
  BY <1>1, FS_Subset
<1>3. ASSUME NEW S \in SUBSET Conns, NEW T \in SUBSET S PROVE Cardinality(T) <= Cardinality(S)
  BY <1>2, FS_Subset
<1>4. \A S \in SUBSET Conns : Cardinality(S) \in Nat
  BY <1>2, FS_CardinalityType
<1>5. ASSUME NEW S \in SUBSET Conns, NEW h \in S PROVE Cardinality(S \ {h}) = Cardinality(S) - 1
  BY <1>2, FS_RemoveElement
<1>6. ASSUME NEW S \in SUBSET Conns, NEW h \in Conns PROVE Cardinality(S \cup {h}) <= Cardinality(S) + 1
  BY <1>2, <1>4, FS_AddElement
<1>7. ASSUME NEW S \in SUBSET Conns, NEW g \in S, NEW h \in S, g # h PROVE Cardinality(S) > 1
  <2>1. Cardinality(S \ {g}) = Cardinality(S) - 1 /\ h \in S \ {g} /\ S \ {g} \in SUBSET Conns
    BY <1>5, <1>7
  <2>2. Cardinality((S \ {g}) \ {h}) = Cardinality(S \ {g}) - 1 /\ (S \ {g}) \ {h} \in SUBSET Conns
    BY <1>5, <2>1
  <2>. QED BY <1>4, <2>1, <2>2
<1>. QED BY <1>2, <1>3, <1>4, <1>5, <1>6, <1>7

\* Nobody gains a session, and the logon stays.
LEMMA CountKeeps ==
    ASSUME LoginsInv, \A h \in Conns : Unfinished(h)' => Unfinished(h) /\ Home(h)' = Home(h),
           logon' = logon, logon # 0 => login'[logon].handle = login[logon].handle, dropped' = dropped
    PROVE  CountInv'
<1>1. CountInv /\ dropped \in Nat
  BY DEF LoginsInv, SessionInv, LoginsTypeOK, DatabaseTypes
<1>2. Claimants' \subseteq Claimants /\ Claimants \subseteq Conns /\ Strangers \subseteq Claimants
  BY DEF Claimants, Strangers
<1>3. Strangers' \subseteq Strangers
  BY <1>2 DEF Claimants, Strangers, HasLogon
<1>4. Cardinality(Claimants') <= Cardinality(Claimants) /\ Cardinality(Strangers') <= Cardinality(Strangers)
  BY <1>2, <1>3, ClaimantsAre
<1>5. Cardinality(Claimants) \in Nat /\ Cardinality(Claimants') \in Nat /\ Cardinality(Strangers) \in Nat /\ Cardinality(Strangers') \in Nat
  BY <1>2, <1>3, ClaimantsAre
<1>6. Cardinality(Claimants') <= dropped + (IF logon = 0 THEN 0 ELSE 1) /\ Cardinality(Strangers') <= dropped
  BY <1>1, <1>4, <1>5 DEF CountInv
<1>. QED BY <1>6 DEF CountInv

\* The logon goes when nobody has it.
LEMMA CountEnds ==
    ASSUME LoginsInv, \A h \in Conns : Unfinished(h)' => Unfinished(h) /\ ~HasLogon(h), logon' = 0, dropped' = dropped
    PROVE  CountInv'
<1>1. CountInv /\ dropped \in Nat
  BY DEF LoginsInv, SessionInv, LoginsTypeOK, DatabaseTypes
<1>2. Claimants' \subseteq Strangers /\ Strangers' \subseteq Claimants' /\ Strangers \subseteq Conns
  BY DEF Claimants, Strangers
<1>3. Cardinality(Claimants') <= Cardinality(Strangers) /\ Cardinality(Strangers') <= Cardinality(Strangers)
  BY <1>2, ClaimantsAre
<1>4. Cardinality(Strangers) \in Nat /\ Cardinality(Claimants') \in Nat /\ Cardinality(Strangers') \in Nat
  BY <1>2, ClaimantsAre
<1>5. Cardinality(Claimants') <= dropped /\ Cardinality(Strangers') <= dropped
  BY <1>1, <1>3, <1>4 DEF CountInv
<1>6. dropped' + (IF logon' = 0 THEN 0 ELSE 1) = dropped
  BY <1>1
<1>. QED BY <1>5, <1>6 DEF CountInv

\* Orderly sessions: one at a time, and it has the logon.
LEMMA OneClaim ==
    ASSUME LoginsInv, Orderly, NEW g \in Conns, Unfinished(g)
    PROVE  HasLogon(g) /\ \A h \in Conns : Unfinished(h) => h = g
<1>1. CountInv /\ dropped = 0
  BY DEF LoginsInv, SessionInv, Orderly
<1>2. g \in Claimants /\ Claimants \subseteq Conns /\ Strangers \subseteq Conns
  BY DEF Claimants, Strangers
<1>3. Cardinality(Claimants) <= 1 /\ Cardinality(Strangers) <= 0
  <2>1. Cardinality(Claimants) \in Nat /\ Cardinality(Strangers) \in Nat
    BY <1>2, ClaimantsAre
  <2>. QED BY <1>1, <2>1 DEF CountInv
<1>4. Strangers = {}
  <2>1. IsFiniteSet(Strangers) /\ Cardinality(Strangers) \in Nat
    BY <1>2, ClaimantsAre
  <2>2. Cardinality(Strangers) = 0
    BY <1>3, <2>1
  <2>. QED BY <2>1, <2>2, FS_EmptySet
<1>5. HasLogon(g)
  BY <1>2, <1>4 DEF Strangers
<1>6. ASSUME NEW h \in Conns, Unfinished(h), h # g PROVE FALSE
  <2>1. h \in Claimants
    BY <1>6 DEF Claimants
  <2>2. Cardinality(Claimants) > 1 /\ Cardinality(Claimants) \in Nat
    BY <1>2, <1>6, <2>1, ClaimantsAre
  <2>. QED BY <1>3, <2>2
<1>. QED BY <1>5, <1>6

LEMMA BoundIs ==
    ASSUME LoginsInv
    PROVE  /\ \A m \in Mail : m.conn \in Conns /\ Used(m.conn)
           /\ \A m \in Mail : Claims(m) => Unfinished(m.conn)
           /\ \A h \in Conns : Bound(h) => Unfinished(h) /\ Open(h) /\ conn[h].phase # "gone"
           /\ \A h \in Conns : Playing(h) => Bound(h) /\ conn[h].phase # "select"
           /\ \A h \in Conns : Open(h) => Used(h)
BY MailTyped, UnfinishedIs DEF UnfinishedMeans, LoginsInv, SessionInv, LoginsTypeOK, MailInv, Timely, Used, Open, Playing, Bound

LEMMA SaveAt ==
    ASSUME LoginsInv, NEW m \in Mail, IsSave(m)
    PROVE  /\ Home(m.conn) \in Cores /\ m \in Sent(Home(m.conn)) /\ m \in ToDB
           /\ ~HalfRead(Home(m.conn)) => Unfinished(m.conn)
           /\ Half(m) /\ ~HalfRead(Home(m.conn)) => \E w \in Mail : Ends(w, m)
<1>1. MailTypes /\ HalfOrder /\ Located
  BY DEF LoginsInv, SessionInv, LoginsTypeOK, Order
<1>2. m \in ToDB
  BY <1>1, MailTyped, MailIs DEF IsSave
<1>3. PICK c \in Cores : m \in Sent(c)
  BY <1>2, MailIs
<1>4. Home(m.conn) = c
  BY <1>1, <1>3 DEF Located
<1>5. ASSUME Half(m), ~HalfRead(c) PROVE \E w \in Mail : Ends(w, m)
  <2>1. out[c] \in Seq(Requests) /\ Len(out[c]) \in Nat
    BY <1>1 DEF MailTypes
  <2>2. Sent(c) = {out[c][n] : n \in 1 .. Len(out[c])}
    BY <2>1, RangeIs DEF Sent
  <2>3. PICK n \in 1 .. Len(out[c]) : m = out[c][n]
    BY <1>3, <2>2
  <2>4. CASE n = 1
    <3>1. out[c] # <<>> /\ Head(out[c]) = m
      BY <2>1, <2>3, <2>4
    <3>. QED BY <1>5, <3>1 DEF HalfRead, Half, IsSave
  <2>5. CASE n # 1
    <3>1. n - 1 \in 1 .. Len(out[c])
      BY <2>1, <2>5
    <3>2. Ends(out[c][n - 1], m) /\ out[c][n - 1] \in Sent(c)
      BY <1>1, <1>5, <2>2, <2>3, <2>5, <3>1 DEF HalfOrder
    <3>. QED BY <3>2, MailIs
  <2>. QED BY <2>4, <2>5
<1>6. ASSUME ~HalfRead(c) PROVE Unfinished(m.conn)
  <2>1. CASE ~Half(m)
    BY <2>1, BoundIs DEF Claims
  <2>2. CASE Half(m)
    BY <1>5, <1>6, <2>2, BoundIs DEF Claims, Ends
  <2>. QED BY <2>1, <2>2
<1>. QED BY <1>2, <1>3, <1>4, <1>5, <1>6

\* While a session is open the saves under way are its own, but for the half of a move.
LEMMA BoundSaves ==
    ASSUME LoginsInv, Orderly, NEW h \in Conns, Bound(h), \A c \in Cores : ~HalfRead(c)
    PROVE  \A m \in Mail : IsSave(m) => m.conn = h /\ Playing(h)
<1>1. SUFFICES ASSUME NEW m \in Mail, IsSave(m) PROVE m.conn = h /\ Playing(h)
  OBVIOUS
<1>2. Unfinished(m.conn) /\ m.conn \in Conns /\ Unfinished(h)
  BY <1>1, SaveAt, BoundIs
<1>3. m.conn = h
  BY <1>2, OneClaim
<1>4. conn[h].phase # "select"
  BY <1>1, <1>3 DEF LoginsInv, SessionInv, MailInv, Timely
<1>. QED BY <1>3, <1>4 DEF Bound, Playing

\* A character is loaded for who has nothing of it under way.
LEMMA SelectedHas ==
    ASSUME LoginsInv, Orderly, NEW h \in Conns, conn[h].phase = "select"
    PROVE  /\ \A g \in Conns : ~Playing(g)
           /\ (\A c \in Cores : ~HalfRead(c)) => (\A m \in Mail : ~IsSave(m)) /\ made \subseteq Saved
<1>1. Bound(h) /\ ~Playing(h)
  BY DEF Bound, Playing
<1>2. \A g \in Conns : ~Playing(g)
  BY <1>1, BoundIs, OneClaim
<1>3. ASSUME \A c \in Cores : ~HalfRead(c) PROVE (\A m \in Mail : ~IsSave(m)) /\ made \subseteq Saved
  <2>1. \A m \in Mail : ~IsSave(m)
    BY <1>1, <1>3, BoundSaves
  <2>2. \A g \in Conns : conn[g].char = {}
    BY <1>2 DEF LoginsInv, SessionInv, ConnInv
  <2>. QED BY <2>1, <2>2 DEF LoginsInv, CharInv, HeldInv, Kept
<1>. QED BY <1>2, <1>3

-----------------------------------------------------------------------------
\* What a step has to show.  Descriptors advance, and new messages fit.

Advances ==
    \A h \in Conns : Used(h) =>
        /\ Used(h)' /\ Home(h)' = Home(h)
        /\ conn'[h].phase = "login" => conn[h].phase = "login"
        /\ conn[h].phase = "gone" => conn'[h].phase = "gone"
        /\ conn'[h].phase = "select" => conn[h].phase \in {"login", "select"}
        /\ Playing(h)' => conn[h].phase = "select" \/ (Playing(h) /\ conn[h].char \subseteq conn'[h].char)
Alone(m) == \A w \in Mail' : w.conn = m.conn => w = m \/ (w.op \notin Solo /\ m.op \notin Solo)
NewMail(m) == m.conn \in Conns /\ Timely(m)' /\ Alone(m) /\ (m.op \in Solo => ~Bound(m.conn)')
Fits ==
    /\ \A m \in Mail' : m \in Mail \/ NewMail(m)
    /\ \A h \in Conns : Bound(h)' => Bound(h) \/ \A m \in Mail' : m.conn # h

LEMMA StepKeeps ==
    ASSUME LoginsInv, LoginsTypeOK', ConnInv', Located', Order', Advances, Fits, CountInv', Orderly' => CharInv'
    PROVE  LoginsInv'
<1>1. MailTypes /\ MailInv /\ SoloInv
  BY DEF LoginsInv, SessionInv, LoginsTypeOK
<1>2. \A m \in Mail : m.conn \in Conns
  BY <1>1, MailTyped
<1>3. MailInv'
  <2>1. SUFFICES ASSUME NEW m \in Mail, m \in Mail' PROVE Timely(m)'
    BY DEF MailInv, Fits, NewMail
  <2>2. m.conn \in Conns /\ Timely(m)
    BY <1>1, <1>2 DEF MailInv
  <2>3. Used(m.conn)' /\ (m.op \in Late => conn'[m.conn].phase # "login")
    BY <2>2 DEF Timely, Advances
  <2>4. m.op = "LOGOUT" \/ Half(m) => conn'[m.conn].phase = "gone"
    BY <2>2 DEF Timely, Advances
  <2>5. ASSUME IsSave(m) PROVE conn'[m.conn].phase # "select" /\ (Playing(m.conn)' => m.char \subseteq conn'[m.conn].char)
    <3>1. m.op \in Late
      BY <2>5 DEF IsSave, Late
    <3>2. Used(m.conn) /\ conn[m.conn].phase # "login" /\ conn[m.conn].phase # "select" /\ (Playing(m.conn) => m.char \subseteq conn[m.conn].char)
      BY <2>2, <2>5, <3>1 DEF Timely
    <3>. QED BY <2>2, <3>2 DEF Advances
  <2>. QED BY <2>3, <2>4, <2>5 DEF Timely, IsSave, Half
<1>4. SoloInv'
  <2>1. SUFFICES ASSUME NEW m \in Mail', m.op \in Solo
                 PROVE  ~Bound(m.conn)' /\ \A w \in Mail' : w.conn = m.conn => w.op = m.op
    BY Zenon DEF SoloInv, Solo
  <2>2. CASE m \in Mail
    <3>1. ~Bound(m.conn)'
      BY <1>1, <1>2, <2>1, <2>2 DEF SoloInv, Fits
    <3>2. ASSUME NEW w \in Mail', w.conn = m.conn, w \notin Mail PROVE w.op = m.op
      BY <2>1, <3>2 DEF Fits, NewMail, Alone
    <3>. QED BY <1>1, <2>1, <2>2, <3>1, <3>2 DEF SoloInv
  <2>3. CASE m \notin Mail
    BY <2>1, <2>3 DEF Fits, NewMail, Alone
  <2>. QED BY <2>2, <2>3
<1>. QED BY <1>3, <1>4 DEF LoginsInv, SessionInv

LEMMA LocatedStep ==
    ASSUME LoginsInv, Advances,
           \A c \in Cores : \A m \in Sent(c)' : m \in Sent(c) \/ Home(m.conn)' = c,
           \A c \in Cores : \A m \in Coming(c)' : m \in Coming(c) \/ Home(m.conn)' = c,
           \A q \in Asked' : q \in Asked \/ Home(q.conn)' = q.core,
           \A c \in Cores : (c \notin up' => in'[c] = <<>>) /\ (c \notin peers' => out'[c] = <<>>)
    PROVE  Located'
<1>1. MailTypes /\ Located
  BY DEF LoginsInv, SessionInv, LoginsTypeOK
<1>2. \A c \in Cores : \A m \in Sent(c) \cup Coming(c) : m.conn \in Conns /\ Used(m.conn) /\ Home(m.conn) = c
  BY <1>1, BoundIs, MailIs DEF Located
<1>3. \A q \in Asked : q.conn \in Conns /\ Used(q.conn) /\ Home(q.conn) = q.core
  BY <1>1, BoundIs, MailIs DEF Located
<1>4. \A c \in Cores : \A m \in Sent(c)' \cup Coming(c)' : Home(m.conn)' = c
  BY <1>2 DEF Advances
<1>5. \A q \in Asked' : Home(q.conn)' = q.core
  BY <1>3 DEF Advances
<1>. QED BY <1>4, <1>5 DEF Located

\* Nobody gains a session.
LEMMA CountStep ==
    ASSUME LoginsInv, LoginsTypeOK', Advances,
           \A h \in Conns : Bound(h)' => Unfinished(h),
           \A m \in Mail' : Claims(m) /\ m \notin Mail => Unfinished(m.conn),
           logon' = logon, logon # 0 => login'[logon].handle = login[logon].handle, dropped' = dropped
    PROVE  CountInv'
<1>1. SUFFICES ASSUME NEW h \in Conns, Unfinished(h)' PROVE Unfinished(h) /\ Home(h)' = Home(h)
  BY CountKeeps
<1>2. MailTypes /\ MailTypes'
  BY DEF LoginsInv, SessionInv, LoginsTypeOK
<1>3. Bound(h)' \/ \E m \in Mail' : m.conn = h /\ Claims(m)
  BY <1>1, <1>2, UnfinishedNext DEF UnfinishedMeans
<1>4. Unfinished(h)
  BY <1>3, BoundIs
<1>5. Used(h)
  BY <1>2, <1>4, BoundIs, UnfinishedIs DEF UnfinishedMeans
<1>. QED BY <1>4, <1>5 DEF Advances

\* What was made is kept when no save is lost.
LEMMA HeldStep ==
    ASSUME LoginsInv, Orderly, Saved' = Saved, made' \subseteq made,
           \A m \in Mail : IsSave(m) => m \in Mail',
           \A h \in Conns : \/ conn[h].char \subseteq conn'[h].char
                            \/ \E m \in Mail' : IsSave(m) /\ m.char = conn[h].char
    PROVE  HeldInv'
<1>1. HeldInv
  BY DEF LoginsInv, CharInv
<1>2. SUFFICES ASSUME NEW e \in made' PROVE Kept(e)'
  BY DEF HeldInv
<1>3. Kept(e)
  BY <1>1 DEF HeldInv
<1>4. CASE e \in Saved
  BY <1>4 DEF Kept
<1>5. CASE \E h \in Conns : e \in conn[h].char
  <2>1. (\E h \in Conns : e \in conn'[h].char) \/ \E m \in Mail' : IsSave(m) /\ e \in m.char
    BY <1>5
  <2>. QED BY <2>1 DEF Kept, IsSave
<1>6. CASE \E m \in Mail : IsSave(m) /\ e \in m.char
  <2>1. \E m \in Mail' : IsSave(m) /\ e \in m.char
    BY <1>6
  <2>. QED BY <2>1 DEF Kept, IsSave
<1>. QED BY <1>3, <1>4, <1>5, <1>6 DEF Kept

\* Nobody begins to play, and what is sent of the character is right.
NewChar(m) ==
    /\ IsSave(m) => \E h \in Conns : Playing(h) /\ m.char = conn[h].char
    /\ IsLoad(m) /\ conn'[m.conn].phase = "select" => (Saved \cup made) \subseteq m.char /\ \A c \in Cores : ~HalfRead(c)'

LEMMA CharStep ==
    ASSUME LoginsInv, Orderly, Advances, HeldInv', Saved' = Saved, made' \subseteq made,
           \A c \in Cores : HalfRead(c)' => HalfRead(c),
           \A h \in Conns : Playing(h)' => Playing(h),
           \A m \in Mail' : m \in Mail \/ NewChar(m)
    PROVE  CharInv'
<1>1. HalfInv /\ ChainInv /\ LoadInv /\ MailInv
  BY DEF LoginsInv, SessionInv, CharInv
<1>2. \A m \in Mail : m.conn \in Conns /\ Used(m.conn)
  BY BoundIs
<1>3. ASSUME NEW m \in Mail, IsLoad(m), conn'[m.conn].phase = "select" PROVE conn[m.conn].phase = "select"
  <2>1. conn[m.conn].phase # "login"
    BY <1>1, <1>3 DEF MailInv, Timely, IsLoad, Late
  <2>. QED BY <1>2, <1>3, <2>1 DEF Advances
<1>4. HalfInv'
  <2>1. SUFFICES ASSUME NEW c \in Cores, HalfRead(c), HalfRead(c)'
                 PROVE  /\ \A h \in Conns : ~Playing(h)'
                        /\ \A m, w \in Mail' : IsSave(m) /\ IsSave(w) => m = w
                        /\ \A m \in Mail' : IsLoad(m) => conn'[m.conn].phase # "select"
    BY DEF HalfInv, IsSave, IsLoad
  <2>2. /\ \A h \in Conns : ~Playing(h)
        /\ \A m, w \in Mail : IsSave(m) /\ IsSave(w) => m = w
        /\ \A m \in Mail : IsLoad(m) => conn[m.conn].phase # "select"
    BY <1>1, <2>1 DEF HalfInv
  <2>3. \A m \in Mail' : IsSave(m) => m \in Mail
    BY <2>2 DEF NewChar
  <2>4. \A m \in Mail' : IsLoad(m) => conn'[m.conn].phase # "select"
    BY <1>3, <2>1, <2>2 DEF NewChar
  <2>. QED BY <2>2, <2>3, <2>4
<1>5. ChainInv'
  <2>1. ASSUME NEW m \in Mail', IsSave(m) PROVE Saved \subseteq m.char
    BY <1>1, <2>1 DEF ChainInv, NewChar
  <2>2. ASSUME NEW h \in Conns, Playing(h)' PROVE Saved \subseteq conn'[h].char
    <3>1. Playing(h) /\ Used(h) /\ conn[h].phase # "select"
      BY <2>2, BoundIs
    <3>. QED BY <1>1, <2>2, <3>1 DEF ChainInv, Advances
  <2>. QED BY <2>1, <2>2 DEF ChainInv, IsSave
<1>6. LoadInv'
  <2>1. SUFFICES ASSUME NEW m \in Mail', IsLoad(m), conn'[m.conn].phase = "select"
                 PROVE  (Saved \cup made)' \subseteq m.char
    BY DEF LoadInv, IsLoad
  <2>2. (Saved \cup made) \subseteq m.char
    BY <1>1, <1>3, <2>1 DEF LoadInv, NewChar
  <2>. QED BY <2>2
<1>. QED BY <1>4, <1>5, <1>6 DEF CharInv

-----------------------------------------------------------------------------
\* A step that concerns neither connections nor the character: messages are dropped
\* that promise nothing, and sent that say nothing but to someone who waits.
SameConns == \A h \in Conns : /\ conn'[h].core = conn[h].core /\ conn'[h].key = conn[h].key
                              /\ conn'[h].phase = conn[h].phase /\ conn'[h].char = conn[h].char
SameData == Saved' = Saved /\ made' = made /\ up' = up /\ name' = name
SameHalf == \A c \in Cores : HalfRead(c)' => HalfRead(c)
SameLogon == logon' = logon /\ dropped' = dropped /\ (logon # 0 => login'[logon].handle = login[logon].handle)
OrderlyStep == Orderly' => Orderly
Plain(m) ==
    /\ m.op \in {"LOGIN_ALREADY", "LOGIN_NOT_EXIST", "PLAYER_LOAD_FAILED", "PLAYER_LOAD", "PLAYER", "PLAYER_LOAD_SUCCESS"}
    /\ m.conn \in Conns /\ Used(m.conn)
    /\ m.op \in Late => conn[m.conn].phase # "login"
    /\ Orderly' /\ IsLoad(m) /\ conn[m.conn].phase = "select" =>
           (Saved \cup made) \subseteq m.char /\ \A c \in Cores : ~HalfRead(c)'
Asking(m) == m.op \in {"LOGIN", "LOGIN_SUCCESS"} /\ m.conn \in Conns /\ Used(m.conn) /\ ~Bound(m.conn)
StillMail ==
    /\ \A m \in Mail' : m \in Mail \/ (Alone(m) /\ (Plain(m) \/ Asking(m)))
    /\ \A m \in Mail : IsSave(m) => m \in Mail'

LEMMA SameView ==
    ASSUME SameConns
    PROVE  \A h \in Conns : /\ Used(h)' <=> Used(h)
                            /\ Home(h)' = Home(h)
                            /\ Playing(h)' <=> Playing(h)
                            /\ Bound(h)' <=> Bound(h)
                            /\ Open(h)' <=> Open(h)
BY DEF SameConns, Used, Home, Playing, Bound, Open

LEMMA SameAdvances == ASSUME SameConns PROVE Advances
BY SameView DEF SameConns, Advances, Playing

LEMMA SameConnInv ==
    ASSUME LoginsInv, SameConns, name' = name, up' = up, key' \in Nat, key <= key'
    PROVE  ConnInv'
<1>1. ConnInv /\ CoreTypes /\ key \in Nat
  BY KeyIs DEF LoginsInv, SessionInv, LoginsTypeOK
<1>2. ASSUME NEW c \in Cores, name'[c] # 0 PROVE Bound(name[c])' /\ Home(name[c])' = c
  <2>1. name[c] \in Conns /\ Bound(name[c]) /\ Home(name[c]) = c
    BY <1>1, <1>2 DEF ConnInv, CoreTypes, Conns
  <2>. QED BY <2>1, SameView
<1>3. ASSUME NEW h \in Conns, Used(h)' PROVE Home(h)' \in Cores /\ conn'[h].key \in 1 .. key'
  <2>1. Used(h) /\ Home(h)' = Home(h) /\ conn'[h].key = conn[h].key
    BY <1>3, SameView DEF SameConns
  <2>2. Home(h) \in Cores /\ conn[h].key \in 1 .. key
    BY <1>1, <2>1 DEF ConnInv
  <2>. QED BY <1>1, <2>1, <2>2
<1>4. ASSUME NEW h \in Conns PROVE (~Playing(h)' => conn'[h].char = {}) /\ (Open(h)' => Home(h)' \in up')
  BY <1>1, SameView DEF ConnInv, SameConns
<1>. QED BY <1>2, <1>3, <1>4 DEF ConnInv

LEMMA StillStep ==
    ASSUME LoginsInv, LoginsTypeOK', Located', Order', SameConns, SameData, key <= key', StillMail,
           CountInv', OrderlyStep, Orderly' => HalfInv'
    PROVE  LoginsInv'
<1>1. Advances /\ ConnInv'
  BY SameAdvances, SameConnInv, KeyIs DEF SameData, LoginsTypeOK, DatabaseTypes
<1>2. \A m \in Mail' : m \notin Mail => ~IsSave(m) /\ m.op # "LOGOUT" /\ m.conn \in Conns
  BY DEF StillMail, Plain, Asking, IsSave
<1>3. Fits
  <2>1. ASSUME NEW m \in Mail', m \notin Mail PROVE NewMail(m)
    <3>1. CASE Plain(m)
      <4>1. Timely(m)' /\ m.op \notin Solo
        BY <1>2, <2>1, <3>1, SameView DEF Plain, Timely, SameConns, Half, IsSave, Solo
      <4>. QED BY <1>2, <2>1, <4>1 DEF NewMail, StillMail
    <3>2. CASE Asking(m)
      <4>1. Timely(m)' /\ ~Bound(m.conn)'
        BY <1>2, <2>1, <3>2, SameView DEF Asking, Timely, SameConns, Half, IsSave, Late
      <4>. QED BY <1>2, <2>1, <4>1 DEF NewMail, StillMail
    <3>. QED BY <2>1, <3>1, <3>2 DEF StillMail
  <2>. QED BY <2>1, SameView DEF Fits
<1>4. ASSUME Orderly' PROVE CharInv'
  <2>1. Orderly /\ ChainInv /\ LoadInv /\ HalfInv'
    BY <1>4 DEF OrderlyStep, LoginsInv, CharInv
  <2>2. HeldInv'
    BY <2>1, HeldStep DEF StillMail, SameData, SameConns
  <2>3. ChainInv'
    BY <1>2, <2>1, SameView DEF ChainInv, SameData, SameConns, IsSave
  <2>4. LoadInv'
    <3>1. SUFFICES ASSUME NEW m \in Mail', IsLoad(m), conn'[m.conn].phase = "select"
                   PROVE  (Saved \cup made)' \subseteq m.char
      BY DEF LoadInv, IsLoad
    <3>2. m.conn \in Conns
      BY <1>2, BoundIs
    <3>3. conn[m.conn].phase = "select"
      BY <3>1, <3>2 DEF SameConns
    <3>4. CASE m \in Mail
      BY <2>1, <3>1, <3>3, <3>4 DEF LoadInv, SameData
    <3>5. CASE m \notin Mail
      BY <1>4, <3>1, <3>3, <3>5 DEF StillMail, Plain, Asking, IsLoad, SameData
    <3>. QED BY <3>4, <3>5
  <2>. QED BY <2>1, <2>2, <2>3, <2>4 DEF CharInv
<1>. QED BY <1>1, <1>3, <1>4, StepKeeps

\* Nothing of a move is half read that was not.
LEMMA HalfKeeps ==
    ASSUME LoginsInv, SameConns, SameHalf, OrderlyStep, StillMail
    PROVE  Orderly' => HalfInv'
<1>1. SUFFICES ASSUME Orderly', NEW c \in Cores, HalfRead(c), HalfRead(c)'
               PROVE  /\ \A h \in Conns : ~Playing(h)'
                      /\ \A m, w \in Mail' : IsSave(m) /\ IsSave(w) => m = w
                      /\ \A m \in Mail' : IsLoad(m) => conn'[m.conn].phase # "select"
  BY DEF HalfInv, IsSave, IsLoad, SameHalf
<1>2. HalfInv
  BY <1>1 DEF LoginsInv, CharInv, OrderlyStep
<1>3. /\ \A h \in Conns : ~Playing(h)
      /\ \A m, w \in Mail : IsSave(m) /\ IsSave(w) => m = w
      /\ \A m \in Mail : IsLoad(m) => conn[m.conn].phase # "select"
  BY <1>1, <1>2 DEF HalfInv
<1>4. \A m \in Mail' : IsSave(m) => m \in Mail
  BY DEF StillMail, Plain, Asking, IsSave
<1>5. ASSUME NEW m \in Mail', IsLoad(m) PROVE conn'[m.conn].phase # "select"
  <2>1. CASE m \in Mail
    <3>1. m.conn \in Conns
      BY <2>1, BoundIs
    <3>. QED BY <1>3, <1>5, <2>1, <3>1 DEF SameConns
  <2>2. CASE m \notin Mail
    <3>1. Plain(m)
      BY <1>5, <2>2 DEF StillMail, Asking, IsLoad
    <3>. QED BY <1>1, <1>5, <3>1 DEF Plain, SameConns
  <2>. QED BY <2>1, <2>2
<1>. QED BY <1>3, <1>4, <1>5, SameView

LEMMA PlainStep ==
    ASSUME LoginsInv, LoginsTypeOK', Located', Order', SameConns, SameData, key <= key', SameLogon, SameHalf, OrderlyStep, StillMail,
           \A m \in Mail' : m \in Mail \/ m.op # "LOGIN_SUCCESS"
    PROVE  LoginsInv'
<1>1. Orderly' => HalfInv'
  BY HalfKeeps
<1>2. \A m \in Mail' : ~(Claims(m) /\ m \notin Mail)
  BY DEF StillMail, Plain, Asking, Claims, IsSave
<1>3. \A h \in Conns : Bound(h)' => Unfinished(h)
  BY SameView, BoundIs
<1>4. CountInv'
  BY <1>2, <1>3, SameAdvances, CountStep DEF SameLogon
<1>. QED BY <1>1, <1>4, StillStep

-----------------------------------------------------------------------------
\* The steps that are plain.

LEMMA SpendIs == ASSUME NEW k \in Kinds, Spend(k), budget \in [Kinds -> Nat] PROVE budget' \in [Kinds -> Nat]
BY DEF Spend

LEMMA ConnIs ==
    ASSUME CoreTypes, NEW h \in Conns, NEW r \in ConnRecords, conn' = [conn EXCEPT ![h] = r]
    PROVE  conn' \in [Conns -> ConnRecords] /\ conn'[h] = r /\ \A g \in Conns : g # h => conn'[g] = conn[g]
BY DEF CoreTypes

LEMMA SameMailIs ==
    ASSUME UNCHANGED <<out, in, sql>>
    PROVE  /\ Mail' = Mail /\ Asked' = Asked /\ ToDB' = ToDB /\ ToCores' = ToCores
           /\ \A c \in Cores : Sent(c)' = Sent(c) /\ Coming(c)' = Coming(c)
           /\ SameHalf /\ (Order => Order') /\ (MailTypes => MailTypes')
BY Zenon DEF Mail, Asked, ToDB, ToCores, Sent, Coming, SameHalf, HalfRead, Order, OutOrder, InOrder, SqlOrder, HalfOrder, MailTypes

LEMMA SameOrderly == ASSUME LoginsInv, UNCHANGED <<dropped, overtaken>> PROVE OrderlyStep
BY DEF OrderlyStep, Orderly

LEMMA StillIs ==
    ASSUME LoginsInv, UNCHANGED <<out, in, sql, up, peers>>, CoreTypes', DatabaseTypes',
           SameConns, SameData, key <= key', SameLogon, UNCHANGED overtaken
    PROVE  LoginsInv'
<1>1. MailTypes /\ Located /\ Order
  BY DEF LoginsInv, SessionInv, LoginsTypeOK
<1>2. LoginsTypeOK' /\ Order'
  BY <1>1, SameMailIs DEF LoginsTypeOK
<1>3. Located'
  BY <1>1, SameMailIs, SameAdvances, LocatedStep DEF Located
<1>4. StillMail
  BY SameMailIs DEF StillMail
<1>5. OrderlyStep
  BY SameOrderly DEF SameLogon
<1>. QED BY <1>2, <1>3, <1>4, <1>5, SameMailIs, PlainStep

LEMMA HangUpKeeps == ASSUME LoginsInv, NEW h \in Conns, HangUp(h) PROVE LoginsInv'
<1>1. CoreTypes /\ DatabaseTypes
  BY DEF LoginsInv, SessionInv, LoginsTypeOK
<1>2. conn' = [conn EXCEPT ![h].client = FALSE] /\ UNCHANGED <<name, up, peers, out, in, kicks, made>> /\ UNCHANGED database
      /\ budget' \in [Kinds -> Nat]
  BY <1>1, SpendIs DEF HangUp, DatabaseTypes, Kinds
<1>3. CoreTypes' /\ SameConns
  BY <1>1, <1>2 DEF CoreTypes, ConnRecords, SameConns
<1>4. DatabaseTypes' /\ SameLogon /\ SameData /\ key <= key'
  BY <1>1, <1>2, KeyIs DEF DatabaseTypes, database, SameLogon, SameData, Saved
<1>. QED BY <1>2, <1>3, <1>4, StillIs DEF database

LEMMA UpdateLogoutPlayerKeeps == ASSUME LoginsInv, UpdateLogoutPlayer PROVE LoginsInv'
<1>1. CoreTypes /\ DatabaseTypes
  BY DEF LoginsInv, SessionInv, LoginsTypeOK
<1>2. CoreTypes' /\ SameConns
  BY <1>1 DEF UpdateLogoutPlayer, CoreTypes, SameConns
<1>3. row' \subseteq Changes /\ cache' = NoCache /\ leaving' = FALSE /\ row' = Saved
  BY <1>1 DEF UpdateLogoutPlayer, Written, DatabaseTypes, Saved
<1>4. DatabaseTypes'
  BY <1>1, <1>3 DEF UpdateLogoutPlayer, DatabaseTypes
<1>5. SameLogon /\ SameData /\ key <= key'
  BY <1>1, <1>3, KeyIs DEF UpdateLogoutPlayer, SameLogon, SameData, Saved
<1>. QED BY <1>2, <1>4, <1>5, StillIs DEF UpdateLogoutPlayer

\* Another key is announced.
LEMMA QUERY_AUTH_LOGINKeeps == ASSUME LoginsInv, QUERY_AUTH_LOGIN PROVE LoginsInv'
<1>1. CoreTypes /\ DatabaseTypes
  BY DEF LoginsInv, SessionInv, LoginsTypeOK
<1>2. CoreTypes' /\ SameConns
  BY <1>1 DEF QUERY_AUTH_LOGIN, CoreTypes, SameConns
<1>3. key' = key + 1 /\ key \in Nat /\ key < NumKeys
  BY <1>1, KeyIs DEF QUERY_AUTH_LOGIN
<1>4. key' \in 0 .. NumKeys /\ logon' \in 0 .. key' /\ key <= key'
  BY <1>1, <1>3, LoginAssumption DEF QUERY_AUTH_LOGIN, DatabaseTypes
<1>5. DatabaseTypes' /\ SameLogon /\ SameData
  BY <1>1, <1>4 DEF QUERY_AUTH_LOGIN, DatabaseTypes, SameLogon, SameData, Saved
<1>. QED BY <1>2, <1>4, <1>5, StillIs DEF QUERY_AUTH_LOGIN

LEMMA CharacterSelectKeeps == ASSUME LoginsInv, NEW h \in Conns, CharacterSelect(h) PROVE LoginsInv'
<1> DEFINE m == Msg("PLAYER_LOAD", h, 0, {})
           c == Home(h)
<1>1. CoreTypes /\ DatabaseTypes /\ MailTypes /\ Order /\ ConnInv /\ Located /\ SoloInv
  BY DEF LoginsInv, SessionInv, LoginsTypeOK
<1>2. /\ out' = [out EXCEPT ![c] = Append(@, m)] /\ conn[h].phase = "select" /\ budget' \in [Kinds -> Nat]
      /\ UNCHANGED <<conn, name, up, peers, in, kicks, made, key, login, logon, sql, cache, row, leaving, dropped, overtaken>>
  BY <1>1, SpendIs DEF CharacterSelect, DatabaseTypes, Kinds, database, Home
<1>3. m \in Requests /\ m.op = "PLAYER_LOAD" /\ m.conn = h
  BY DEF Msg, Requests
<1>4. Used(h) /\ Open(h) /\ Bound(h) /\ c \in Cores /\ c \in up /\ c \in peers
  BY <1>1, <1>2 DEF Used, Open, Bound, ConnInv, CoreTypes
<1> HIDE DEF m, c
<1>5. \A w \in Sent(c) : MayFollow(w, m)
  BY <1>3 DEF MayFollow, IsSave
<1>6. ~Half(m)
  BY <1>3 DEF Half, IsSave
<1>7. /\ out' \in [Cores -> Seq(Requests)] /\ OutOrder' /\ HalfOrder' /\ ToDB' = ToDB \cup {m} /\ SameHalf
      /\ \A d \in Cores : Sent(d)' = IF d = c THEN Sent(d) \cup {m} ELSE Sent(d)
  BY <1>1, <1>2, <1>3, <1>4, <1>5, <1>6, SendIs DEF Order, SameHalf
<1>8. (\A d \in Cores : Coming(d)' = Coming(d)) /\ ToCores' = ToCores /\ Asked' = Asked
  BY <1>2 DEF Coming, ToCores, Asked
<1>9. LoginsTypeOK' /\ Order'
  BY <1>1, <1>2, <1>7 DEF LoginsTypeOK, CoreTypes, DatabaseTypes, MailTypes, Order, InOrder, SqlOrder
<1>10. SameConns /\ SameLogon /\ SameData /\ Home(h)' = c /\ key <= key' /\ OrderlyStep
  BY <1>1, <1>2, KeyIs, SameOrderly DEF SameConns, SameLogon, SameData, Saved, Home, c
<1>11. Located'
  <2>1. \A d \in Cores : (d \notin up' => in'[d] = <<>>) /\ (d \notin peers' => out'[d] = <<>>)
    BY <1>1, <1>2, <1>4 DEF Located, MailTypes
  <2>. QED BY <1>3, <1>7, <1>8, <1>10, <2>1, SameAdvances, LocatedStep
<1>12. Mail' = Mail \cup {m}
  BY <1>7, <1>8 DEF Mail
<1>13. StillMail
  <2>1. Plain(m)
    BY <1>2, <1>3, <1>4 DEF Plain, IsLoad
  <2>2. Alone(m)
    BY <1>1, <1>3, <1>4, <1>12 DEF SoloInv, Solo, Alone
  <2>. QED BY <1>3, <1>12, <2>1, <2>2 DEF StillMail
<1>. QED BY <1>3, <1>7, <1>9, <1>10, <1>11, <1>12, <1>13, PlainStep

\* A message of the DB process is read.
LEMMA HearFacts ==
    ASSUME LoginsInv, NEW c \in Cores, NEW x, in[c] # <<>>, x = Head(in[c]), in' = [in EXCEPT ![c] = Tail(@)]
    PROVE  /\ in' \in [Cores -> Seq(Answers)] /\ InOrder' /\ x \in ToCores /\ x \in Mail /\ x \in Answers /\ x.conn \in Conns
           /\ Home(x.conn) = c /\ Used(x.conn)
           /\ \A d \in Cores : Coming(d)' \subseteq Coming(d) /\ (d \notin up => in'[d] = <<>>)
           /\ ToCores' \subseteq ToCores /\ ToCores = {x} \cup ToCores'
           /\ x.op = "LOGIN_SUCCESS" => \A w \in ToDB \cup ToCores' \cup Asked : w.conn # x.conn
           /\ ~IsSave(x) /\ x.op # "LOGOUT"
<1>1. MailTypes /\ Order /\ Located /\ SoloInv
  BY DEF LoginsInv, SessionInv, LoginsTypeOK
<1>2. /\ in' \in [Cores -> Seq(Answers)] /\ InOrder' /\ x \in Coming(c) /\ x \in ToCores
      /\ \A d \in Cores : d # c => in'[d] = in[d] /\ Coming(d)' = Coming(d)
      /\ Coming(c) = {x} \cup Coming(c)' /\ ToCores' \subseteq ToCores /\ ToCores = {x} \cup ToCores'
      /\ \A w \in Coming(c)' : MayAnswer(x, w)
  BY <1>1, HearIs DEF Order
<1>3. x \in Mail /\ x.conn \in Conns /\ Home(x.conn) = c /\ Used(x.conn) /\ x \in Answers
  BY <1>1, <1>2, MailIs, MailTyped, BoundIs DEF Located
<1>4. ~IsSave(x) /\ x.op # "LOGOUT"
  BY <1>1, <1>2, MailTyped DEF IsSave
<1>5. c \in up
  BY <1>1 DEF Located
<1>6. ASSUME x.op = "LOGIN_SUCCESS", NEW w \in ToDB \cup ToCores' \cup Asked, w.conn = x.conn PROVE FALSE
  <2>1. w \in Mail
    BY <1>2, <1>6, MailIs
  <2>2. w.op = "LOGIN_SUCCESS"
    BY <1>1, <1>3, <1>6, <2>1 DEF SoloInv, Solo
  <2>3. w \in ToCores'
    BY <1>1, <1>6, <2>2, MailTyped
  <2>4. PICK d \in Cores : w \in Coming(d)'
    BY <2>3, Zenon DEF ToCores
  <2>5. d = c
    BY <1>1, <1>2, <1>3, <1>6, <2>4 DEF Located
  <2>. QED BY <1>2, <1>6, <2>2, <2>4, <2>5 DEF MayAnswer
<1>7. \A d \in Cores : Coming(d)' \subseteq Coming(d) /\ (d \notin up => in'[d] = <<>>)
  BY <1>1, <1>2, <1>5 DEF Located
<1>. QED BY <1>2, <1>3, <1>4, <1>6, <1>7

\* Nothing comes of it.
LEMMA HearPlain ==
    ASSUME LoginsInv, NEW c \in Cores, in[c] # <<>>, in' = [in EXCEPT ![c] = Tail(@)],
           CoreTypes', SameConns, UNCHANGED <<name, up, peers, out, made, budget>>, UNCHANGED database
    PROVE  LoginsInv'
<1>1. DatabaseTypes /\ MailTypes /\ Order /\ Located
  BY DEF LoginsInv, SessionInv, LoginsTypeOK
<1>2. PICK x : x = Head(in[c])
  OBVIOUS
<1>3. /\ in' \in [Cores -> Seq(Answers)] /\ InOrder' /\ x \in ToCores /\ ~IsSave(x)
      /\ \A d \in Cores : Coming(d)' \subseteq Coming(d) /\ (d \notin up => in'[d] = <<>>)
      /\ ToCores' \subseteq ToCores /\ ToCores = {x} \cup ToCores'
  BY <1>2, HearFacts
<1>4. (\A d \in Cores : Sent(d)' = Sent(d)) /\ ToDB' = ToDB /\ Asked' = Asked /\ SameHalf
  BY DEF Sent, ToDB, Asked, database, SameHalf, HalfRead
<1>5. LoginsTypeOK' /\ Order'
  BY <1>1, <1>3 DEF LoginsTypeOK, DatabaseTypes, MailTypes, Order, OutOrder, HalfOrder, SqlOrder, database
<1>6. SameLogon /\ SameData /\ key <= key' /\ OrderlyStep
  BY <1>1, KeyIs, SameOrderly DEF SameLogon, SameData, Saved, database
<1>7. Located'
  <2>1. \A d \in Cores : (d \notin up' => in'[d] = <<>>) /\ (d \notin peers' => out'[d] = <<>>)
    BY <1>1, <1>3 DEF Located
  <2>. QED BY <1>3, <1>4, <2>1, SameAdvances, LocatedStep
<1>8. Mail' \subseteq Mail /\ Mail = {x} \cup Mail'
  BY <1>3, <1>4, Zenon DEF Mail
<1>9. StillMail
  BY <1>3, <1>8 DEF StillMail
<1>. QED BY <1>4, <1>5, <1>6, <1>7, <1>8, <1>9, PlainStep

LEMMA TimerIs ==
    ASSUME CoreTypes, NEW h \in Conns, conn' = [conn EXCEPT ![h].timer = TRUE]
    PROVE  conn' \in [Conns -> ConnRecords] /\ SameConns
BY DEF CoreTypes, ConnRecords, SameConns

-----------------------------------------------------------------------------
\* A connection ends: its character is saved, its session logged out.
LEMMA DestroyedIs ==
    ASSUME NEW h \in Conns, conn[h].char \subseteq Changes
    PROVE  /\ Destroyed(h) \in Seq(Requests)
           /\ Range(Destroyed(h)) = (IF Playing(h) THEN {Msg("PLAYER_SAVE", h, 0, conn[h].char)} ELSE {})
                                    \cup (IF Bound(h) THEN {Msg("LOGOUT", h, 0, {})} ELSE {})
           /\ \A p \in Before(Destroyed(h)) : p[2] = Msg("LOGOUT", h, 0, {}) /\ p[1] = Msg("PLAYER_SAVE", h, 0, conn[h].char)
           /\ \A n \in 1 .. Len(Destroyed(h)) : ~Half(Destroyed(h)[n])
           /\ \A n \in 1 .. Len(Destroyed(h)) : ~Half(Destroyed(h)[n])
<1> DEFINE s == Msg("PLAYER_SAVE", h, 0, conn[h].char)
           l == Msg("LOGOUT", h, 0, {})
           S == IF Playing(h) THEN <<s>> ELSE <<>>
           L == IF Bound(h) THEN <<l>> ELSE <<>>
<1>1. s \in Requests /\ l \in Requests /\ ~Half(s) /\ ~Half(l)
  BY DEF Msg, Requests, Half, IsSave
<1>2. Destroyed(h) = S \o L
  BY DEF Destroyed
<1>3. <<s>> \in Seq(Requests) /\ Range(<<s>>) = {s} /\ Before(<<s>>) = {} /\ <<l>> \in Seq(Requests) /\ Range(<<l>>) = {l} /\ Before(<<l>>) = {}
  BY <1>1, QueueOfOne
<1>4. <<>> \in Seq(Requests) /\ Range(<<>>) = {} /\ Before(<<>>) = {}
  BY QueueOfNone
<1> HIDE DEF s, l
<1>5. /\ S \in Seq(Requests) /\ Range(S) = (IF Playing(h) THEN {s} ELSE {}) /\ Before(S) = {}
      /\ L \in Seq(Requests) /\ Range(L) = (IF Bound(h) THEN {l} ELSE {}) /\ Before(L) = {}
  BY <1>3, <1>4
<1> HIDE DEF S, L
<1>6. /\ S \o L \in Seq(Requests) /\ Range(S \o L) = Range(S) \cup Range(L)
      /\ Before(S \o L) \subseteq Before(S) \cup Before(L) \cup (Range(S) \X Range(L))
  BY <1>5, QueueCat
<1>7. \A p \in Before(S \o L) : p[2] = l /\ p[1] = s
  BY <1>5, <1>6
<1> DEFINE D == Destroyed(h)
<1>8. D \in Seq(Requests) /\ Range(D) = Range(S) \cup Range(L)
  BY <1>2, <1>6
<1> HIDE DEF D
<1>9. \A n \in 1 .. Len(D) : D[n] \in Range(D)
  BY <1>8, RangeIs
<1>10. \A n \in 1 .. Len(D) : ~Half(D[n])
  BY <1>1, <1>5, <1>8, <1>9
<1>. QED BY <1>2, <1>5, <1>7, <1>8, <1>10 DEF s, l, D

\* One descriptor changes.
LEMMA OneConn ==
    ASSUME CoreTypes, NEW h \in Conns, NEW r \in ConnRecords, conn' = [conn EXCEPT ![h] = r]
    PROVE  /\ conn' \in [Conns -> ConnRecords] /\ conn'[h] = r
           /\ \A g \in Conns : g # h => /\ conn'[g] = conn[g]
                                        /\ Home(g)' = Home(g)
                                        /\ Used(g)' <=> Used(g)
                                        /\ Playing(g)' <=> Playing(g)
                                        /\ Bound(g)' <=> Bound(g)
                                        /\ Open(g)' <=> Open(g)
           /\ Home(h)' = r.core
           /\ Used(h)' <=> r.phase # "unused"
           /\ Playing(h)' <=> r.phase = "game"
           /\ Bound(h)' <=> r.phase \in {"select", "game"}
           /\ Open(h)' <=> r.phase \in {"login", "select", "game"}
<1>1. conn' \in [Conns -> ConnRecords] /\ conn'[h] = r /\ \A g \in Conns : g # h => conn'[g] = conn[g]
  BY ConnIs
<1>2. ASSUME NEW g \in Conns, g # h
      PROVE  /\ conn'[g] = conn[g] /\ Home(g)' = Home(g)
             /\ Used(g)' <=> Used(g)
             /\ Playing(g)' <=> Playing(g)
             /\ Bound(g)' <=> Bound(g)
             /\ Open(g)' <=> Open(g)
  BY <1>1, <1>2 DEF Home, Used, Playing, Bound, Open
<1>3. /\ Home(h)' = r.core /\ (Used(h)' <=> r.phase # "unused") /\ (Playing(h)' <=> r.phase = "game")
      /\ (Bound(h)' <=> r.phase \in {"select", "game"}) /\ (Open(h)' <=> r.phase \in {"login", "select", "game"})
  BY <1>1 DEF Home, Used, Playing, Bound, Open
<1>. QED BY <1>1, <1>2, <1>3

\* The descriptor that changes is of the same core and goes on.
LEMMA OneConnInv ==
    ASSUME LoginsInv, NEW h \in Conns, Used(h), NEW r \in ConnRecords, conn' = [conn EXCEPT ![h] = r],
           r.core = conn[h].core, r.key = conn[h].key, r.phase # "unused",
           r.phase # "game" => r.char = {}, r.phase # "gone" => Open(h),
           \A c \in Cores : name'[c] # 0 =>
               \/ name'[c] = name[c] /\ (name[c] = h => r.phase \in {"select", "game"})
               \/ name'[c] = h /\ Home(h) = c /\ r.phase \in {"select", "game"},
           UNCHANGED <<key, up>>
    PROVE  ConnInv'
<1>1. ConnInv /\ CoreTypes
  BY DEF LoginsInv, SessionInv, LoginsTypeOK
<1>2. /\ \A g \in Conns : g # h => /\ conn'[g] = conn[g] /\ Home(g)' = Home(g)
                                   /\ Used(g)' <=> Used(g)
                                   /\ Playing(g)' <=> Playing(g)
                                   /\ Bound(g)' <=> Bound(g)
                                   /\ Open(g)' <=> Open(g)
      /\ conn'[h] = r /\ Home(h)' = Home(h) /\ (Playing(h)' <=> r.phase = "game") /\ (Bound(h)' <=> r.phase \in {"select", "game"})
      /\ Open(h)' => Open(h)
  <2>1. /\ \A g \in Conns : g # h => /\ conn'[g] = conn[g] /\ Home(g)' = Home(g)
                                     /\ Used(g)' <=> Used(g)
                                     /\ Playing(g)' <=> Playing(g)
                                     /\ Bound(g)' <=> Bound(g)
                                     /\ Open(g)' <=> Open(g)
        /\ conn'[h] = r /\ Home(h)' = r.core /\ (Playing(h)' <=> r.phase = "game") /\ (Bound(h)' <=> r.phase \in {"select", "game"})
        /\ (Open(h)' <=> r.phase \in {"login", "select", "game"})
    BY <1>1, OneConn
  <2>. QED BY <2>1 DEF Home
<1>3. ASSUME NEW c \in Cores, name'[c] # 0 PROVE Bound(name[c])' /\ Home(name[c])' = c
  <2>1. CASE name'[c] = h /\ Home(h) = c /\ r.phase \in {"select", "game"}
    BY <1>2, <2>1 DEF Bound, Home
  <2>2. CASE name'[c] = name[c] /\ (name[c] = h => r.phase \in {"select", "game"})
    <3>1. name[c] \in Conns /\ Bound(name[c]) /\ Home(name[c]) = c
      BY <1>1, <1>3, <2>2 DEF ConnInv, CoreTypes, Conns
    <3>3. CASE name[c] = h
      BY <1>2, <2>2, <3>1, <3>3 DEF Bound, Home
    <3>4. CASE name[c] # h
      <4>1. conn'[name[c]] = conn[name[c]]
        BY <1>2, <3>1, <3>4
      <4>. QED BY <2>2, <3>1, <4>1 DEF Bound, Home
    <3>. QED BY <3>3, <3>4
  <2>. QED BY <1>3, <2>1, <2>2
<1>4. ASSUME NEW g \in Conns
      PROVE  /\ Used(g)' => Home(g)' \in Cores /\ conn'[g].key \in 1 .. key'
             /\ ~Playing(g)' => conn'[g].char = {}
             /\ Open(g)' => Home(g)' \in up'
  <2>1. CASE g = h
    BY <1>1, <1>2, <2>1 DEF ConnInv
  <2>2. CASE g # h
    BY <1>1, <1>2, <2>2 DEF ConnInv
  <2>. QED BY <2>1, <2>2
<1>. QED BY <1>3, <1>4 DEF ConnInv

\* A connection is over: what it sends last is the character, if it plays one, and
\* the end of its session, if it has one.
Farewell(h, ms) ==
    /\ ms \in Seq(Requests)
    /\ \A m \in Range(ms) : /\ m.conn = h /\ Bound(h)
                            /\ m.op = "LOGOUT" \/ (IsSave(m) /\ m.char = conn[h].char /\ Playing(h))
    /\ \A p \in Before(ms) : MayFollow(p[1], p[2])
    /\ \A n \in 1 .. Len(ms) : Half(ms[n]) => n > 1 /\ Ends(ms[n - 1], ms[n])
    /\ Playing(h) => \E m \in Range(ms) : IsSave(m)
Dropping == /\ in' \in [Cores -> Seq(Answers)] /\ InOrder'
            /\ \A d \in Cores : Coming(d)' \subseteq Coming(d) /\ (d \notin up => in'[d] = <<>>)

LEMMA EndKeeps ==
    ASSUME LoginsInv, NEW h \in Conns, Open(h), NEW ms, Farewell(h, ms), Sends(Home(h), ms), Dropping,
           conn' = [conn EXCEPT ![h] = Gone(h)],
           name' = IF Bound(h) THEN [name EXCEPT ![Home(h)] = 0] ELSE name,
           kicks' \subseteq Cores, budget' \in [Kinds -> Nat], UNCHANGED <<up, peers, made>>, UNCHANGED database
    PROVE  LoginsInv'
<1> DEFINE c == Home(h)
           r == Gone(h)
<1>1. /\ LoginsTypeOK /\ ConnInv /\ MailInv /\ SoloInv /\ Located /\ Order /\ MailTypes /\ CoreTypes /\ DatabaseTypes
  BY DEF LoginsInv, SessionInv, LoginsTypeOK
<1>2. c \in Cores /\ c \in up /\ c \in peers /\ Used(h) /\ conn[h].phase # "gone"
  BY <1>1, BoundIs DEF ConnInv, CoreTypes, Open
<1>3. r \in ConnRecords /\ r.core = conn[h].core /\ r.key = conn[h].key /\ r.phase = "gone" /\ r.char = {}
  BY <1>1 DEF Gone, CoreTypes, ConnRecords, Phases
<1> HIDE DEF c, r
<1>4. /\ conn' \in [Conns -> ConnRecords] /\ conn'[h] = r
      /\ \A g \in Conns : g # h => /\ conn'[g] = conn[g]
                                   /\ Home(g)' = Home(g)
                                   /\ Used(g)' <=> Used(g)
                                   /\ Playing(g)' <=> Playing(g)
                                   /\ Bound(g)' <=> Bound(g)
                                   /\ Open(g)' <=> Open(g)
      /\ Home(h)' = c /\ Used(h)' /\ ~Playing(h)' /\ ~Bound(h)' /\ ~Open(h)'
  <2>1. conn' = [conn EXCEPT ![h] = r]
    BY DEF r
  <2>2. /\ conn' \in [Conns -> ConnRecords] /\ conn'[h] = r
        /\ \A g \in Conns : g # h => /\ conn'[g] = conn[g]
                                     /\ Home(g)' = Home(g)
                                     /\ Used(g)' <=> Used(g)
                                     /\ Playing(g)' <=> Playing(g)
                                     /\ Bound(g)' <=> Bound(g)
                                     /\ Open(g)' <=> Open(g)
        /\ Home(h)' = r.core
        /\ Used(h)' <=> r.phase # "unused"
        /\ Playing(h)' <=> r.phase = "game"
        /\ Bound(h)' <=> r.phase \in {"select", "game"}
        /\ Open(h)' <=> r.phase \in {"login", "select", "game"}
    BY <1>1, <1>3, <2>1, OneConn
  <2>. QED BY <1>3, <2>2 DEF c, Home
<1>5. ConnInv'
  <2>1. \A d \in Cores : name'[d] # 0 => name'[d] = name[d] /\ name[d] # h
    <3>1. SUFFICES ASSUME NEW d \in Cores, name'[d] # 0 PROVE name'[d] = name[d] /\ name[d] # h
      OBVIOUS
    <3>2. name'[d] = name[d] /\ (Bound(h) => d # c)
      BY <1>1, <1>2, <3>1 DEF CoreTypes, c
    <3>3. Bound(name[d]) /\ Home(name[d]) = d
      BY <1>1, <3>1, <3>2 DEF ConnInv
    <3>. QED BY <3>2, <3>3 DEF c
  <2>2. conn' = [conn EXCEPT ![h] = r]
    BY DEF r
  <2>. QED BY <1>2, <1>3, <2>1, <2>2, OneConnInv DEF database
<1>6. Advances
  <2>1. SUFFICES ASSUME NEW g \in Conns, Used(g)
                 PROVE  /\ Used(g)' /\ Home(g)' = Home(g)
                        /\ conn'[g].phase = "login" => conn[g].phase = "login"
                        /\ conn[g].phase = "gone" => conn'[g].phase = "gone"
                        /\ conn'[g].phase = "select" => conn[g].phase \in {"login", "select"}
                        /\ Playing(g)' => conn[g].phase = "select" \/ (Playing(g) /\ conn[g].char \subseteq conn'[g].char)
    BY DEF Advances
  <2>2. CASE g # h
    <3>1. conn'[g] = conn[g] /\ Home(g)' = Home(g) /\ Used(g)' /\ (Playing(g)' <=> Playing(g))
      BY <1>4, <2>1, <2>2
    <3>. QED BY <3>1
  <2>3. CASE g = h
    BY <1>2, <1>3, <1>4, <2>3 DEF c
  <2>. QED BY <2>2, <2>3
<1>7. \A m \in Range(ms) : /\ m.conn = h /\ Bound(h)
                           /\ m.op = "LOGOUT" \/ (IsSave(m) /\ m.char = conn[h].char /\ Playing(h))
  BY DEF Farewell
<1>8. \A w \in Sent(c), m \in Range(ms) : MayFollow(w, m)
  <2>1. SUFFICES ASSUME NEW w \in Sent(c), NEW m \in Range(ms), w.conn = m.conn PROVE MayFollow(w, m)
    BY DEF MayFollow
  <2>2. w \in Mail /\ w.conn = h /\ Timely(w)
    BY <1>1, <1>2, <1>7, <2>1, MailIs DEF MailInv
  <2>3. w.op # "LOGOUT" /\ ~Half(w)
    BY <1>2, <2>2 DEF Timely
  <2>4. IsSave(w) /\ IsSave(m) => w.char \subseteq m.char
    BY <1>7, <2>2 DEF Timely, IsSave
  <2>5. m.op # "LOGIN_BY_KEY"
    BY <1>7 DEF IsSave
  <2>. QED BY <2>3, <2>4, <2>5 DEF MayFollow
<1>9. /\ out' \in [Cores -> Seq(Requests)] /\ OutOrder' /\ HalfOrder' /\ ToDB' = ToDB \cup Range(ms) /\ SameHalf
      /\ \A d \in Cores : Sent(d)' = IF d = c THEN Sent(d) \cup Range(ms) ELSE Sent(d)
  BY <1>1, <1>2, <1>8, SendsIs DEF Farewell, Order, SameHalf, c
<1>10. ToCores' \subseteq ToCores /\ Asked' = Asked /\ sql' = sql
  BY Zenon DEF Dropping, ToCores, Asked, database
<1>11. Mail' \subseteq Mail \cup Range(ms) /\ Range(ms) \subseteq Mail' /\ ToDB \subseteq Mail'
  BY <1>9, <1>10, Zenon DEF Mail
<1>12. \A m \in Mail : IsSave(m) => m \in Mail'
  BY <1>1, <1>11, MailTyped, MailIs DEF IsSave
<1>13. LoginsTypeOK' /\ Order'
  <2>1. name' \in [Cores -> 0 .. NumConns]
    <3>1. 0 \in 0 .. NumConns /\ name \in [Cores -> 0 .. NumConns]
      BY <1>1, LoginAssumption DEF CoreTypes
    <3>. QED BY <3>1
  <2>. QED BY <1>1, <1>4, <1>9, <1>10, <2>1 DEF LoginsTypeOK, CoreTypes, DatabaseTypes, MailTypes, Order, SqlOrder, Dropping, database
<1>14. Located'
  <2>1. \A d \in Cores : (d \notin up' => in'[d] = <<>>) /\ (d \notin peers' => out'[d] = <<>>)
    BY <1>1, <1>2 DEF Located, Dropping, Sends, MailTypes, c
  <2>2. \A d \in Cores : \A m \in Sent(d)' : m \in Sent(d) \/ Home(m.conn)' = d
    BY <1>4, <1>7, <1>9 DEF Home
  <2>3. \A d \in Cores : \A m \in Coming(d)' : m \in Coming(d)
    BY DEF Dropping
  <2>. QED BY <1>6, <1>10, <2>1, <2>2, <2>3, LocatedStep
<1>15. Fits
  <2>1. ASSUME NEW m \in Range(ms) PROVE NewMail(m)
    <3>1. m.conn = h /\ Bound(h) /\ m.op \notin Solo
      BY <1>7, <2>1 DEF IsSave, Solo
    <3>2. Timely(m)'
      BY <1>3, <1>4, <3>1 DEF Timely
    <3>3. ASSUME NEW w \in Mail', w.conn = h PROVE w.op \notin Solo
      BY <1>1, <1>7, <1>11, <3>1, <3>3 DEF SoloInv, Solo, IsSave
    <3>. QED BY <1>4, <3>1, <3>2, <3>3 DEF NewMail, Alone
  <2>2. \A g \in Conns : Bound(g)' => Bound(g)
    BY <1>4
  <2>. QED BY <1>11, <2>1, <2>2 DEF Fits
<1>16. CountInv'
  <2>1. \A g \in Conns : Bound(g)' => Unfinished(g)
    BY <1>4, BoundIs
  <2>2. \A m \in Mail' : m \notin Mail => Unfinished(m.conn)
    BY <1>7, <1>11, BoundIs
  <2>. QED BY <1>6, <1>13, <2>1, <2>2, CountStep DEF database
<1>17. ASSUME Orderly' PROVE CharInv'
  <2>1. Orderly /\ Saved' = Saved /\ made' = made
    BY <1>17 DEF Orderly, Saved, database
  <2>2. HeldInv'
    <3>1. ASSUME NEW g \in Conns PROVE conn[g].char \subseteq conn'[g].char \/ \E m \in Mail' : IsSave(m) /\ m.char = conn[g].char
      <4>1. CASE g # h
        BY <1>4, <4>1
      <4>2. CASE g = h /\ ~Playing(h)
        BY <1>1, <4>2 DEF ConnInv
      <4>3. CASE g = h /\ Playing(h)
        <5>1. PICK m \in Range(ms) : IsSave(m)
          BY <4>3 DEF Farewell
        <5>. QED BY <1>7, <1>11, <4>3, <5>1 DEF IsSave
      <4>. QED BY <4>1, <4>2, <4>3
    <3>. QED BY <1>12, <2>1, <3>1, HeldStep
  <2>3. \A m \in Mail' : m \in Mail \/ NewChar(m)
    BY <1>7, <1>11 DEF NewChar, IsSave, IsLoad
  <2>. QED BY <1>4, <1>6, <1>9, <2>1, <2>2, <2>3, CharStep DEF SameHalf
<1>. QED BY <1>5, <1>6, <1>13, <1>14, <1>15, <1>16, <1>17, StepKeeps

LEMMA DestroyKeeps ==
    ASSUME LoginsInv, NEW h \in Conns, Open(h), Destroy(h), Dropping,
           kicks' \subseteq Cores, UNCHANGED <<up, peers, made, budget>>, UNCHANGED database
    PROVE  LoginsInv'
<1> DEFINE ms == Destroyed(h)
           s == Msg("PLAYER_SAVE", h, 0, conn[h].char)
           l == Msg("LOGOUT", h, 0, {})
<1>1. conn[h].char \subseteq Changes /\ budget \in [Kinds -> Nat]
  BY DEF LoginsInv, SessionInv, LoginsTypeOK, CoreTypes, DatabaseTypes, ConnRecords
<1>2. /\ ms \in Seq(Requests)
      /\ Range(ms) = (IF Playing(h) THEN {s} ELSE {}) \cup (IF Bound(h) THEN {l} ELSE {})
      /\ \A p \in Before(ms) : p[2] = l /\ p[1] = s
      /\ \A n \in 1 .. Len(ms) : ~Half(ms[n])
  BY <1>1, DestroyedIs
<1>3. /\ s.op = "PLAYER_SAVE" /\ s.conn = h /\ s.char = conn[h].char /\ IsSave(s)
      /\ l.op = "LOGOUT" /\ l.conn = h /\ ~IsSave(l) /\ MayFollow(s, l)
  BY DEF Msg, IsSave, MayFollow
<1> HIDE DEF s, l
<1>4. Playing(h) => Bound(h)
  BY BoundIs
<1>5. /\ conn' = [conn EXCEPT ![h] = Gone(h)]
      /\ name' = IF Bound(h) THEN [name EXCEPT ![Home(h)] = 0] ELSE name
      /\ Sends(Home(h), ms)
  BY DEF Destroy, Sends, Home
<1> HIDE DEF ms
<1>6. Farewell(h, ms)
  <2>1. \A m \in Range(ms) : m.conn = h /\ Bound(h) /\ (m.op = "LOGOUT" \/ (IsSave(m) /\ m.char = conn[h].char /\ Playing(h)))
    BY <1>2, <1>3, <1>4
  <2>2. \A p \in Before(ms) : MayFollow(p[1], p[2])
    BY <1>2, <1>3
  <2>3. Playing(h) => \E m \in Range(ms) : IsSave(m)
    BY <1>2, <1>3
  <2>. QED BY <1>2, <2>1, <2>2, <2>3 DEF Farewell
<1>. QED BY <1>1, <1>5, <1>6, EndKeeps

LEMMA NothingComes == ASSUME LoginsInv, in' = in PROVE Dropping
BY DEF LoginsInv, SessionInv, LoginsTypeOK, MailTypes, Order, InOrder, Coming, Located, Dropping

LEMMA CloseKeeps == ASSUME LoginsInv, NEW h \in Conns, Close(h) PROVE LoginsInv'
<1>1. kicks \subseteq Cores
  BY DEF LoginsInv, SessionInv, LoginsTypeOK, CoreTypes
<1>. QED BY <1>1, NothingComes, DestroyKeeps DEF Close

LEMMA ChangeChannelKeeps == ASSUME LoginsInv, NEW h \in Conns, ChangeChannel(h) PROVE LoginsInv'
<1> DEFINE c == Home(h)
           l == Msg("LOGOUT", h, 0, {})
           s == Msg("PLAYER_SAVE", h, conn[h].key, conn[h].char)
           ms == <<l, s>>
<1>1. CoreTypes /\ DatabaseTypes /\ ConnInv
  BY DEF LoginsInv, SessionInv, LoginsTypeOK
<1>2. Playing(h) /\ Bound(h) /\ Open(h) /\ Used(h) /\ budget' \in [Kinds -> Nat]
  BY <1>1, BoundIs, SpendIs DEF ChangeChannel, DatabaseTypes, Kinds
<1>3. conn[h].key \in Nat /\ conn[h].key # 0 /\ conn[h].char \subseteq Changes
  BY <1>1, <1>2, KeyIs DEF ConnInv, CoreTypes, ConnRecords
<1>4. l \in Requests /\ s \in Requests /\ l.op = "LOGOUT" /\ l.conn = h /\ IsSave(s) /\ s.conn = h /\ s.char = conn[h].char /\ Half(s)
      /\ ~Half(l)
  BY <1>3 DEF Msg, Requests, IsSave, Half
<1>5. Sends(c, ms) /\ UNCHANGED <<up, peers, made>> /\ UNCHANGED database /\ kicks' \subseteq Cores
  BY <1>1 DEF ChangeChannel, Sends, Home, CoreTypes
<1>6. conn' = [conn EXCEPT ![h] = Gone(h)] /\ name' = [name EXCEPT ![c] = 0]
  BY DEF ChangeChannel, Home
<1>7. Dropping
  BY NothingComes DEF ChangeChannel
<1> HIDE DEF l, s
<1>8. ms \in Seq(Requests) /\ Len(ms) = 2 /\ ms[1] = l /\ ms[2] = s
  BY <1>4
<1> HIDE DEF ms
<1>9. \A n \in 1 .. Len(ms) : n = 1 \/ n = 2
  BY <1>8
<1>10. Range(ms) = {l, s}
  <2>1. 1 \in 1 .. Len(ms) /\ 2 \in 1 .. Len(ms)
    BY <1>8
  <2>2. Range(ms) = {ms[n] : n \in 1 .. Len(ms)}
    BY <1>8, RangeIs
  <2>. QED BY <1>8, <1>9, <2>1, <2>2
<1>11. \A p \in Before(ms) : MayFollow(p[1], p[2])
  <2>1. SUFFICES ASSUME NEW p \in Before(ms) PROVE MayFollow(p[1], p[2])
    OBVIOUS
  <2>2. PICK n, k \in 1 .. Len(ms) : n < k /\ p = <<ms[n], ms[k]>>
    BY <1>8, BeforeIs
  <2>3. n = 1 /\ k = 2
    BY <1>9, <2>2
  <2>4. MayFollow(l, s)
    BY <1>4 DEF MayFollow, IsSave
  <2>. QED BY <1>8, <2>2, <2>3, <2>4
<1>12. \A n \in 1 .. Len(ms) : Half(ms[n]) => n > 1 /\ Ends(ms[n - 1], ms[n])
  <2>1. Ends(ms[2 - 1], ms[2])
    BY <1>4, <1>8 DEF Ends
  <2>. QED BY <1>4, <1>8, <1>9, <2>1
<1>13. Farewell(h, ms)
  BY <1>2, <1>4, <1>8, <1>10, <1>11, <1>12 DEF Farewell
<1>. QED BY <1>2, <1>5, <1>6, <1>7, <1>13, EndKeeps

\* DisconnectOfSameLogin, of whom the map of names has.
LEMMA DisconnectKeeps ==
    ASSUME LoginsInv, NEW c \in Cores, name[c] # 0, DisconnectOfSameLogin(name[c]), kicks' \subseteq Cores,
           \/ in' = in
           \/ in[c] # <<>> /\ in' = [in EXCEPT ![c] = Tail(@)],
           UNCHANGED <<up, peers, made, budget>>, UNCHANGED database
    PROVE  LoginsInv'
<1> DEFINE h == name[c]
<1>1. CoreTypes /\ DatabaseTypes /\ MailTypes /\ ConnInv /\ Located /\ Order
  BY DEF LoginsInv, SessionInv, LoginsTypeOK
<1>2. h \in Conns /\ Bound(h) /\ Open(h)
  BY <1>1, BoundIs DEF CoreTypes, ConnInv, Conns
<1> HIDE DEF h
<1>3. CASE Playing(h)
  <2>1. conn' = [conn EXCEPT ![h].timer = TRUE] /\ UNCHANGED <<name, out>>
    BY <1>3 DEF DisconnectOfSameLogin, h
  <2>2. CoreTypes' /\ SameConns
    BY <1>1, <1>2, <2>1, TimerIs DEF CoreTypes
  <2>3. CASE in' = in
    <3>1. DatabaseTypes' /\ SameLogon /\ SameData /\ UNCHANGED <<out, in, sql, up, peers, overtaken>> /\ key <= key'
      BY <1>1, <2>1, <2>3, KeyIs DEF DatabaseTypes, SameLogon, SameData, Saved, database
    <3>. QED BY <2>2, <3>1, StillIs
  <2>4. CASE in[c] # <<>> /\ in' = [in EXCEPT ![c] = Tail(@)]
    BY <2>1, <2>2, <2>4, HearPlain
  <2>. QED BY <2>3, <2>4
<1>4. CASE ~Playing(h)
  <2>1. Destroy(h)
    BY <1>4 DEF DisconnectOfSameLogin, h
  <2>2. Dropping
    <3>1. CASE in[c] # <<>> /\ in' = [in EXCEPT ![c] = Tail(@)]
      BY <3>1, HearFacts DEF Dropping
    <3>. QED BY <3>1, NothingComes
  <2>. QED BY <1>2, <2>1, <2>2, DestroyKeeps
<1>. QED BY <1>3, <1>4

LEMMA KickKeeps == ASSUME LoginsInv, NEW c \in Cores, Kick(c) PROVE LoginsInv'
<1>1. CoreTypes /\ DatabaseTypes /\ kicks' \subseteq Cores
  BY DEF LoginsInv, SessionInv, LoginsTypeOK, CoreTypes, Kick
<1>2. CASE name[c] # 0
  BY <1>1, <1>2, DisconnectKeeps DEF Kick
<1>3. CASE name[c] = 0
  <2>1. CoreTypes' /\ SameConns
    BY <1>1, <1>3 DEF Kick, CoreTypes, SameConns
  <2>2. DatabaseTypes' /\ SameLogon /\ SameData /\ UNCHANGED <<out, in, sql, up, peers, overtaken>> /\ key <= key'
    BY <1>1, <1>3, KeyIs DEF Kick, DatabaseTypes, SameLogon, SameData, Saved, database
  <2>. QED BY <2>1, <2>2, StillIs
<1>. QED BY <1>2, <1>3

\* LOGIN_ALREADY.
LEMMA LoginAlreadyKeeps ==
    ASSUME LoginsInv, NEW c \in Cores, NEW h \in Conns, LoginAlready(c, h),
           in[c] # <<>>, in' = [in EXCEPT ![c] = Tail(@)],
           UNCHANGED <<up, peers, made, budget>>, UNCHANGED database
    PROVE  LoginsInv'
<1>1. CoreTypes
  BY DEF LoginsInv, SessionInv, LoginsTypeOK
<1>2. CASE name[c] # 0 /\ Open(h)
  BY <1>1, <1>2, DisconnectKeeps DEF LoginAlready, CoreTypes
<1>3. CASE ~(name[c] # 0 /\ Open(h))
  <2>1. UNCHANGED <<conn, name, out>> /\ kicks' \subseteq Cores
    BY <1>1, <1>3 DEF LoginAlready, CoreTypes
  <2>2. CoreTypes' /\ SameConns
    BY <1>1, <2>1 DEF CoreTypes, SameConns
  <2>. QED BY <2>1, <2>2, HearPlain
<1>. QED BY <1>2, <1>3


LEMMA HeardIs ==
    ASSUME LoginsInv, NEW c \in Cores, NEW x, in[c] # <<>>, x = Head(in[c]), in' = [in EXCEPT ![c] = Tail(@)],
           CoreTypes', Advances, UNCHANGED <<out, up, peers, made, budget>>, UNCHANGED database
    PROVE  /\ LoginsTypeOK' /\ Located' /\ Order' /\ SameHalf /\ Saved' = Saved /\ (Orderly' => Orderly)
           /\ Mail = {x} \cup Mail' /\ \A m \in Mail : IsSave(m) => m \in Mail'
           /\ x.op = "LOGIN_SUCCESS" => \A w \in Mail' : w.conn # x.conn
<1>1. DatabaseTypes /\ MailTypes /\ Order /\ Located
  BY DEF LoginsInv, SessionInv, LoginsTypeOK
<1>2. /\ in' \in [Cores -> Seq(Answers)] /\ InOrder' /\ ~IsSave(x)
      /\ \A d \in Cores : Coming(d)' \subseteq Coming(d) /\ (d \notin up => in'[d] = <<>>)
      /\ ToCores' \subseteq ToCores /\ ToCores = {x} \cup ToCores'
      /\ x.op = "LOGIN_SUCCESS" => \A w \in ToDB \cup ToCores' \cup Asked : w.conn # x.conn
  BY HearFacts
<1>3. (\A d \in Cores : Sent(d)' = Sent(d)) /\ ToDB' = ToDB /\ Asked' = Asked /\ SameHalf
  BY DEF Sent, ToDB, Asked, database, SameHalf, HalfRead
<1>4. LoginsTypeOK' /\ Order'
  BY <1>1, <1>2 DEF LoginsTypeOK, DatabaseTypes, MailTypes, Order, OutOrder, HalfOrder, SqlOrder, database
<1>5. Saved' = Saved /\ (Orderly' => Orderly)
  BY DEF Saved, Orderly, database
<1>6. Located'
  <2>1. \A d \in Cores : (d \notin up' => in'[d] = <<>>) /\ (d \notin peers' => out'[d] = <<>>)
    BY <1>1, <1>2 DEF Located
  <2>. QED BY <1>2, <1>3, <2>1, LocatedStep
<1>7. Mail = {x} \cup Mail' /\ Mail' = ToDB \cup ToCores' \cup Asked
  BY <1>2, <1>3, Zenon DEF Mail
<1>. QED BY <1>2, <1>3, <1>4, <1>5, <1>6, <1>7

LEMMA BindKeeps ==
    ASSUME LoginsInv, NEW c \in Cores, NEW x, in[c] # <<>>, x = Head(in[c]), in' = [in EXCEPT ![c] = Tail(@)],
           x.op = "LOGIN_SUCCESS", Open(x.conn), BindAccountTable(c, x.conn),
           UNCHANGED <<out, kicks, up, peers, made, budget>>, UNCHANGED database
    PROVE  LoginsInv'
<1> DEFINE h == x.conn
           r == [conn[h] EXCEPT !.phase = "select"]
<1>1. LoginsTypeOK /\ ConnInv /\ SoloInv /\ CoreTypes
  BY DEF LoginsInv, SessionInv, LoginsTypeOK
<1>2. x \in Mail /\ h \in Conns /\ Home(h) = c /\ Used(h) /\ Open(h) /\ ~IsSave(x)
  BY HearFacts
<1>3. ~Bound(h) /\ conn[h].phase = "login" /\ ~Playing(h) /\ conn[h].char = {}
  BY <1>1, <1>2 DEF SoloInv, Solo, Open, Bound, Playing, ConnInv
<1>4. Unfinished(h)
  BY <1>2, BoundIs DEF Claims
<1>5. conn' = [conn EXCEPT ![h] = r] /\ name' = IF name[c] = 0 THEN [name EXCEPT ![c] = h] ELSE name
  BY DEF BindAccountTable
<1>6. r \in ConnRecords /\ r.core = conn[h].core /\ r.key = conn[h].key /\ r.phase = "select" /\ r.char = {}
  BY <1>1, <1>2, <1>3 DEF CoreTypes, ConnRecords, Phases
<1> HIDE DEF h, r
<1>7. /\ conn' \in [Conns -> ConnRecords] /\ conn'[h] = r
      /\ \A g \in Conns : g # h => /\ conn'[g] = conn[g] /\ Home(g)' = Home(g)
                                   /\ Used(g)' <=> Used(g)
                                   /\ Playing(g)' <=> Playing(g)
                                   /\ Bound(g)' <=> Bound(g)
                                   /\ Open(g)' <=> Open(g)
      /\ Home(h)' = r.core /\ (Used(h)' <=> r.phase # "unused") /\ (Playing(h)' <=> r.phase = "game")
  BY <1>1, <1>2, <1>5, <1>6, OneConn
<1>8. CoreTypes'
  <2>1. name' \in [Cores -> 0 .. NumConns]
    BY <1>1, <1>2, <1>5 DEF CoreTypes, Conns
  <2>. QED BY <1>1, <1>7, <2>1 DEF CoreTypes
<1>9. ConnInv'
  <2>1. \A d \in Cores : name'[d] # 0 => name'[d] = name[d] \/ (name'[d] = h /\ Home(h) = d)
    BY <1>1, <1>2, <1>5 DEF CoreTypes
  <2>. QED BY <1>2, <1>5, <1>6, <2>1, OneConnInv DEF database
<1>10. Advances
  <2>1. SUFFICES ASSUME NEW g \in Conns, Used(g)
                 PROVE  /\ Used(g)' /\ Home(g)' = Home(g)
                        /\ conn'[g].phase = "login" => conn[g].phase = "login"
                        /\ conn[g].phase = "gone" => conn'[g].phase = "gone"
                        /\ conn'[g].phase = "select" => conn[g].phase \in {"login", "select"}
                        /\ Playing(g)' => conn[g].phase = "select" \/ (Playing(g) /\ conn[g].char \subseteq conn'[g].char)
    BY DEF Advances
  <2>2. CASE g # h
    BY <1>7, <2>1, <2>2
  <2>3. CASE g = h
    BY <1>3, <1>6, <1>7, <2>3 DEF Home
  <2>. QED BY <2>2, <2>3
<1>11. /\ LoginsTypeOK' /\ Located' /\ Order' /\ SameHalf /\ Saved' = Saved /\ (Orderly' => Orderly)
       /\ Mail = {x} \cup Mail' /\ \A m \in Mail : IsSave(m) => m \in Mail'
       /\ \A w \in Mail' : w.conn # h
  BY <1>8, <1>10, HeardIs DEF h
<1>12. Fits
  BY <1>7, <1>11 DEF Fits
<1>13. CountInv'
  <2>1. \A g \in Conns : Bound(g)' => Unfinished(g)
    BY <1>4, <1>7, BoundIs
  <2>. QED BY <1>10, <1>11, <2>1, CountStep DEF database
<1>14. ASSUME Orderly' PROVE CharInv'
  <2>1. \A g \in Conns : conn[g].char \subseteq conn'[g].char /\ (Playing(g)' => Playing(g))
    BY <1>3, <1>6, <1>7
  <2>2. HeldInv'
    BY <1>11, <1>14, <2>1, HeldStep
  <2>. QED BY <1>10, <1>11, <1>14, <2>1, <2>2, CharStep DEF SameHalf
<1>. QED BY <1>9, <1>10, <1>11, <1>12, <1>13, <1>14, StepKeeps

\* LOGIN_SUCCESS, for a connection that is gone: it has to be logged out.
LEMMA NobodyBoundKeeps ==
    ASSUME LoginsInv, NEW c \in Cores, NEW x, in[c] # <<>>, x = Head(in[c]), in' = [in EXCEPT ![c] = Tail(@)], c \in up,
           x.op = "LOGIN_SUCCESS", ~Open(x.conn), CannotFindHandle(c, x.conn),
           UNCHANGED <<conn, name, kicks, up, peers, made, budget>>, UNCHANGED database
    PROVE  LoginsInv'
<1> DEFINE h == x.conn
           l == Msg("LOGOUT", h, 0, {})
<1>1. LoginsTypeOK /\ ConnInv /\ Located /\ Order /\ MailTypes /\ CoreTypes /\ DatabaseTypes
  BY DEF LoginsInv, SessionInv, LoginsTypeOK
<1>2. /\ in' \in [Cores -> Seq(Answers)] /\ InOrder' /\ x \in Mail /\ h \in Conns /\ Home(h) = c /\ Used(h) /\ ~IsSave(x)
      /\ \A d \in Cores : Coming(d)' \subseteq Coming(d) /\ (d \notin up => in'[d] = <<>>)
      /\ ToCores' \subseteq ToCores /\ ToCores = {x} \cup ToCores'
      /\ \A w \in ToDB \cup ToCores' \cup Asked : w.conn # h
  BY HearFacts
<1>3. conn[h].phase = "gone"
  <2>1. conn[h].phase \in Phases
    BY <1>1, <1>2 DEF CoreTypes, ConnRecords
  <2>. QED BY <1>2, <2>1 DEF Phases, Used, Open
<1>4. Unfinished(h)
  BY <1>2, BoundIs DEF Claims
<1> HIDE DEF h
<1>5. l \in Requests /\ l.op = "LOGOUT" /\ l.conn = h /\ ~Half(l) /\ ~IsSave(l) /\ l.op \notin Solo
  BY <1>2 DEF Msg, Requests, Half, IsSave, Solo
<1>6. out' = [out EXCEPT ![c] = Append(@, l)]
  BY DEF CannotFindHandle, h
<1> HIDE DEF l
<1>7. \A w \in Sent(c) : MayFollow(w, l)
  BY <1>2, <1>5, MailIs DEF MayFollow
<1>8. /\ out' \in [Cores -> Seq(Requests)] /\ OutOrder' /\ HalfOrder' /\ ToDB' = ToDB \cup {l} /\ SameHalf
      /\ \A d \in Cores : Sent(d)' = IF d = c THEN Sent(d) \cup {l} ELSE Sent(d)
  BY <1>1, <1>5, <1>6, <1>7, SendIs DEF Order, SameHalf
<1>9. Asked' = Asked /\ sql' = sql
  BY DEF Asked, database
<1>10. /\ \A m \in Mail' : m = l \/ (m \in Mail /\ m.conn # h)
       /\ \A m \in Mail : m = x \/ m \in Mail'
  <2>1. Mail' = ToDB \cup ToCores' \cup Asked \cup {l} /\ Mail = ToDB \cup ToCores \cup Asked
    BY <1>8, <1>9, Zenon DEF Mail
  <2>. QED BY <1>2, <2>1
<1>11. LoginsTypeOK' /\ Order'
  BY <1>1, <1>2, <1>8, <1>9 DEF LoginsTypeOK, CoreTypes, DatabaseTypes, MailTypes, Order, SqlOrder, database
<1>12. SameConns /\ Advances
  BY SameAdvances DEF SameConns
<1>13. Located'
  <2>1. \A d \in Cores : (d \notin up' => in'[d] = <<>>) /\ (d \notin peers' => out'[d] = <<>>)
    BY <1>1, <1>2, <1>6 DEF Located, MailTypes, CoreTypes
  <2>2. \A d \in Cores : \A m \in Sent(d)' : m \in Sent(d) \/ Home(m.conn)' = d
    BY <1>2, <1>5, <1>8 DEF Home
  <2>. QED BY <1>2, <1>9, <1>12, <2>1, <2>2, LocatedStep
<1>14. ConnInv'
  BY <1>1, <1>12, KeyIs, SameConnInv DEF database
<1>15. Fits
  <2>1. Timely(l)'
    BY <1>2, <1>3, <1>5 DEF Timely, Used
  <2>2. Alone(l)
    BY <1>5, <1>10 DEF Alone
  <2>. QED BY <1>2, <1>5, <1>10, <1>12, <2>1, <2>2, SameView DEF Fits, NewMail
<1>16. CountInv'
  <2>1. \A g \in Conns : Bound(g)' => Unfinished(g)
    BY <1>12, SameView, BoundIs
  <2>2. \A m \in Mail' : m \notin Mail => Unfinished(m.conn)
    BY <1>4, <1>5, <1>10
  <2>. QED BY <1>11, <1>12, <2>1, <2>2, CountStep DEF database
<1>17. ASSUME Orderly' PROVE CharInv'
  <2>1. Orderly /\ Saved' = Saved /\ made' = made
    BY <1>17 DEF Orderly, Saved, database
  <2>2. \A m \in Mail : IsSave(m) => m \in Mail'
    BY <1>2, <1>10
  <2>3. HeldInv'
    BY <1>12, <2>1, <2>2, HeldStep DEF SameConns
  <2>4. \A m \in Mail' : m \in Mail \/ NewChar(m)
    BY <1>5, <1>10 DEF NewChar, IsSave, IsLoad
  <2>. QED BY <1>8, <1>12, <2>1, <2>3, <2>4, SameView, CharStep DEF SameHalf
<1>. QED BY <1>11, <1>12, <1>13, <1>14, <1>15, <1>16, <1>17, StepKeeps

\* PLAYER_LOAD_SUCCESS, for who waits for it.
LEMMA EnterKeeps ==
    ASSUME LoginsInv, NEW c \in Cores, NEW x, in[c] # <<>>, x = Head(in[c]), in' = [in EXCEPT ![c] = Tail(@)],
           x.op = "PLAYER_LOAD_SUCCESS", conn[x.conn].phase = "select",
           NEW r \in ConnRecords, conn' = [conn EXCEPT ![x.conn] = r],
           r.core = conn[x.conn].core, r.key = conn[x.conn].key, r.phase = "game", r.char = x.char,
           UNCHANGED <<name, out, kicks, up, peers, made, budget>>, UNCHANGED database
    PROVE  LoginsInv'
<1> DEFINE h == x.conn
<1>1. LoginsTypeOK /\ ConnInv /\ MailInv /\ CoreTypes /\ MailTypes
  BY DEF LoginsInv, SessionInv, LoginsTypeOK
<1>2. x \in Mail /\ h \in Conns /\ Home(h) = c /\ Used(h) /\ x.char \subseteq Changes /\ IsLoad(x) /\ conn[h].phase = "select"
  BY <1>1, HearFacts, MailTyped DEF IsLoad
<1>3. Bound(h) /\ Open(h) /\ Unfinished(h) /\ ~Playing(h) /\ conn[h].char = {}
  BY <1>1, <1>2, BoundIs DEF Bound, Playing, ConnInv
<1>4. conn' = [conn EXCEPT ![h] = r]
  OBVIOUS
<1>5. r \in ConnRecords /\ r.core = conn[h].core /\ r.key = conn[h].key /\ r.phase = "game" /\ r.char = x.char
  OBVIOUS
<1> HIDE DEF h
<1>6. /\ conn' \in [Conns -> ConnRecords] /\ conn'[h] = r
      /\ \A g \in Conns : g # h => /\ conn'[g] = conn[g] /\ Home(g)' = Home(g)
                                   /\ Used(g)' <=> Used(g)
                                   /\ Playing(g)' <=> Playing(g)
                                   /\ Bound(g)' <=> Bound(g)
                                   /\ Open(g)' <=> Open(g)
      /\ Home(h)' = r.core /\ (Used(h)' <=> r.phase # "unused") /\ (Playing(h)' <=> r.phase = "game")
      /\ (Bound(h)' <=> r.phase \in {"select", "game"}) /\ (Open(h)' <=> r.phase \in {"login", "select", "game"})
  <2>1. CoreTypes /\ h \in Conns /\ r \in ConnRecords
    BY <1>1, <1>2, <1>5
  <2>. QED BY <1>4, <2>1, OneConn
<1>7. CoreTypes'
  BY <1>1, <1>6 DEF CoreTypes
<1>8. ConnInv'
  BY <1>2, <1>3, <1>4, <1>5, OneConnInv DEF database
<1>9. Advances
  <2>1. SUFFICES ASSUME NEW g \in Conns, Used(g)
                 PROVE  /\ Used(g)' /\ Home(g)' = Home(g)
                        /\ conn'[g].phase = "login" => conn[g].phase = "login"
                        /\ conn[g].phase = "gone" => conn'[g].phase = "gone"
                        /\ conn'[g].phase = "select" => conn[g].phase \in {"login", "select"}
                        /\ Playing(g)' => conn[g].phase = "select" \/ (Playing(g) /\ conn[g].char \subseteq conn'[g].char)
    BY DEF Advances
  <2>2. CASE g # h
    BY <1>6, <2>1, <2>2
  <2>3. CASE g = h
    BY <1>2, <1>5, <1>6, <2>3 DEF Home
  <2>. QED BY <2>2, <2>3
<1>10. /\ LoginsTypeOK' /\ Located' /\ Order' /\ SameHalf /\ Saved' = Saved /\ (Orderly' => Orderly)
       /\ Mail = {x} \cup Mail'
  BY <1>7, <1>9, HeardIs
<1>11. Fits
  BY <1>3, <1>6, <1>10 DEF Fits
<1>12. CountInv'
  <2>1. \A g \in Conns : Bound(g)' => Unfinished(g)
    BY <1>3, <1>6, BoundIs
  <2>. QED BY <1>9, <1>10, <2>1, CountStep DEF database
<1>13. ASSUME Orderly' PROVE CharInv'
  <2>1. Orderly /\ HalfInv /\ LoadInv
    BY <1>10, <1>13 DEF LoginsInv, CharInv
  <2>2. \A d \in Cores : ~HalfRead(d)
    BY <1>2, <2>1 DEF HalfInv, h
  <2>3. (\A m \in Mail : ~IsSave(m)) /\ (\A g \in Conns : ~Playing(g)) /\ (Saved \cup made) \subseteq x.char
    BY <1>2, <2>1, <2>2, SelectedHas DEF LoadInv, h
  <2>4. HalfInv'
    BY <1>10, <2>2 DEF HalfInv, SameHalf
  <2>5. \A m \in Mail' : ~IsSave(m)
    BY <1>10, <2>3
  <2>6. ChainInv'
    <3>1. \A g \in Conns : Playing(g)' => Saved' \subseteq conn'[g].char
      BY <1>5, <1>6, <1>10, <2>3
    <3>. QED BY <2>5, <3>1 DEF ChainInv, IsSave
  <2>7. HeldInv'
    <3>1. \A e \in made' : e \in conn'[h].char
      BY <1>5, <1>6, <2>3
    <3>. QED BY <1>2, <3>1 DEF HeldInv, Kept
  <2>8. LoadInv'
    <3>1. \A g \in Conns : conn'[g].phase = "select" => conn[g].phase = "select"
      BY <1>5, <1>6
    <3>. QED BY <1>10, <2>1, <3>1, BoundIs DEF LoadInv, IsLoad
  <2>. QED BY <2>4, <2>6, <2>7, <2>8 DEF CharInv
<1>. QED BY <1>8, <1>9, <1>10, <1>11, <1>12, <1>13, StepKeeps

LEMMA ReadDBKeeps == ASSUME LoginsInv, NEW c \in Cores, ReadDB(c) PROVE LoginsInv'
<1>1. PICK x : x = Head(in[c])
  OBVIOUS
<1>2. CoreTypes
  BY DEF LoginsInv, SessionInv, LoginsTypeOK
<1>3. c \in up /\ in[c] # <<>> /\ in' = [in EXCEPT ![c] = Tail(@)] /\ UNCHANGED <<up, peers, made, budget>> /\ UNCHANGED database
  BY DEF ReadDB
<1>4. x.conn \in Conns
  BY <1>1, <1>3, HearFacts
<1>5. CASE x.op = "LOGIN_SUCCESS" /\ LoginSuccess(c, x.conn)
  <2>1. CASE Open(x.conn)
    BY <1>1, <1>3, <1>5, <2>1, BindKeeps DEF LoginSuccess
  <2>2. CASE ~Open(x.conn)
    BY <1>1, <1>3, <1>5, <2>2, NobodyBoundKeeps DEF LoginSuccess
  <2>. QED BY <2>1, <2>2
<1>6. CASE x.op = "LOGIN_ALREADY" /\ LoginAlready(c, x.conn)
  BY <1>3, <1>4, <1>6, LoginAlreadyKeeps
<1>7. CASE UNCHANGED <<conn, name, out, kicks>>
  <2>1. CoreTypes' /\ SameConns
    BY <1>2, <1>3, <1>7 DEF CoreTypes, SameConns
  <2>. QED BY <1>3, <1>7, <2>1, HearPlain
<1>8. CASE x.op = "PLAYER_LOAD_SUCCESS" /\ PlayerLoad(c, x.conn, x.char)
  <2>1. CASE conn[x.conn].phase = "select" /\ ~\E g \in Conns : conn[g].core = c /\ Playing(g)
    <3> DEFINE r == [conn[x.conn] EXCEPT !.phase = "game", !.char = x.char]
    <3>1. conn' = [conn EXCEPT ![x.conn] = r] /\ UNCHANGED <<name, out, kicks>>
      BY <1>8, <2>1 DEF PlayerLoad
    <3>2. x.char \subseteq Changes /\ conn[x.conn] \in ConnRecords
      BY <1>1, <1>2, <1>3, <1>4, HearFacts DEF Answers, CoreTypes
    <3>3. r \in ConnRecords /\ r.core = conn[x.conn].core /\ r.key = conn[x.conn].key /\ r.phase = "game" /\ r.char = x.char
      BY <3>2 DEF ConnRecords, Phases
    <3> HIDE DEF r
    <3>. QED BY <1>1, <1>3, <1>8, <2>1, <3>1, <3>3, EnterKeeps
  <2>2. CASE ~(conn[x.conn].phase = "select" /\ ~\E g \in Conns : conn[g].core = c /\ Playing(g))
    BY <1>7, <1>8, <2>2 DEF PlayerLoad
  <2>. QED BY <2>1, <2>2
<1>. QED BY <1>1, <1>5, <1>6, <1>7, <1>8 DEF ReadDB

-----------------------------------------------------------------------------
\* Who plays, and what is saved.

LEMMA PlayKeeps == ASSUME LoginsInv, NEW h \in Conns, NEW e \in Changes, Play(h, e) PROVE LoginsInv'
<1> DEFINE r == [conn[h] EXCEPT !.char = @ \cup {e}]
<1>1. LoginsTypeOK /\ CoreTypes /\ DatabaseTypes /\ MailTypes /\ Order /\ Located /\ ConnInv
  BY DEF LoginsInv, SessionInv, LoginsTypeOK
<1>2. Playing(h) /\ made' = made \cup {e} /\ UNCHANGED <<name, up, peers, out, in, kicks, budget>> /\ UNCHANGED database
      /\ conn' = [conn EXCEPT ![h] = r]
  BY DEF Play
<1>3. Bound(h) /\ Open(h) /\ Used(h) /\ Unfinished(h) /\ conn[h].phase = "game"
  BY <1>2, BoundIs DEF Playing
<1>4. r \in ConnRecords /\ r.core = conn[h].core /\ r.key = conn[h].key /\ r.phase = "game" /\ r.char = conn[h].char \cup {e}
  <2>1. conn[h] \in ConnRecords
    BY <1>1 DEF CoreTypes
  <2>. QED BY <1>3, <2>1 DEF ConnRecords
<1> HIDE DEF r
<1>5. /\ conn' \in [Conns -> ConnRecords] /\ conn'[h] = r
      /\ \A g \in Conns : g # h => /\ conn'[g] = conn[g] /\ Home(g)' = Home(g)
                                   /\ Used(g)' <=> Used(g)
                                   /\ Playing(g)' <=> Playing(g)
                                   /\ Bound(g)' <=> Bound(g)
                                   /\ Open(g)' <=> Open(g)
      /\ Home(h)' = r.core /\ (Used(h)' <=> r.phase # "unused") /\ (Playing(h)' <=> r.phase = "game")
  BY <1>1, <1>2, <1>4, OneConn
<1>6. Mail' = Mail /\ SameHalf /\ Order' /\ MailTypes' /\ Asked' = Asked
      /\ \A c \in Cores : Sent(c)' = Sent(c) /\ Coming(c)' = Coming(c)
  BY <1>1, <1>2, SameMailIs DEF database
<1>7. LoginsTypeOK'
  BY <1>1, <1>2, <1>5, <1>6 DEF LoginsTypeOK, CoreTypes, DatabaseTypes, database
<1>8. ConnInv'
  BY <1>2, <1>3, <1>4, OneConnInv DEF database
<1>9. Advances
  <2>1. SUFFICES ASSUME NEW g \in Conns, Used(g)
                 PROVE  /\ Used(g)' /\ Home(g)' = Home(g)
                        /\ conn'[g].phase = "login" => conn[g].phase = "login"
                        /\ conn[g].phase = "gone" => conn'[g].phase = "gone"
                        /\ conn'[g].phase = "select" => conn[g].phase \in {"login", "select"}
                        /\ Playing(g)' => conn[g].phase = "select" \/ (Playing(g) /\ conn[g].char \subseteq conn'[g].char)
    BY DEF Advances
  <2>2. CASE g # h
    BY <1>5, <2>1, <2>2
  <2>3. CASE g = h
    BY <1>2, <1>3, <1>4, <1>5, <2>3 DEF Home
  <2>. QED BY <2>2, <2>3
<1>10. Located'
  <2>1. \A c \in Cores : (c \notin up' => in'[c] = <<>>) /\ (c \notin peers' => out'[c] = <<>>)
    BY <1>1, <1>2 DEF Located
  <2>. QED BY <1>6, <1>9, <2>1, LocatedStep
<1>11. Fits
  BY <1>3, <1>5, <1>6 DEF Fits
<1>12. CountInv'
  <2>1. \A g \in Conns : Bound(g)' => Unfinished(g)
    BY <1>3, <1>5, BoundIs
  <2>. QED BY <1>6, <1>7, <1>9, <2>1, CountStep, <1>2 DEF database
<1>13. ASSUME Orderly' PROVE CharInv'
  <2>1. Orderly /\ HalfInv /\ ChainInv /\ HeldInv /\ Saved' = Saved
    BY <1>2, <1>13 DEF Orderly, LoginsInv, CharInv, database, Saved
  <2>2. \A g \in Conns : conn[g].char \subseteq conn'[g].char /\ (Playing(g)' => Playing(g))
    BY <1>2, <1>4, <1>5
  <2>3. \A c \in Cores : ~HalfRead(c)'
    BY <1>2, <1>6, <2>1 DEF HalfInv, SameHalf
  <2>4. ChainInv'
    BY <1>6, <2>1, <2>2 DEF ChainInv, IsSave
  <2>5. HeldInv'
    <3>1. ASSUME NEW d, Kept(d) PROVE Kept(d)'
      BY <1>6, <2>1, <2>2, <3>1 DEF Kept, IsSave
    <3>2. Kept(e)'
      BY <1>4, <1>5 DEF Kept
    <3>. QED BY <1>2, <2>1, <3>1, <3>2 DEF HeldInv
  <2>6. \A g \in Conns : conn'[g].phase # "select"
    <3>1. SUFFICES ASSUME NEW g \in Conns, conn[g].phase = "select" PROVE FALSE
      BY <1>4, <1>5
    <3>. QED BY <1>2, <2>1, <3>1, SelectedHas
  <2>7. LoadInv'
    BY <1>6, <2>6, BoundIs DEF LoadInv
  <2>. QED BY <2>3, <2>4, <2>5, <2>7 DEF CharInv, HalfInv
<1>. QED BY <1>6, <1>7, <1>8, <1>9, <1>10, <1>11, <1>12, <1>13, StepKeeps

LEMMA SaveRealKeeps == ASSUME LoginsInv, NEW h \in Conns, SaveReal(h) PROVE LoginsInv'
<1> DEFINE c == Home(h)
<1>0. PICK s : s = Msg("PLAYER_SAVE", h, 0, conn[h].char)
  OBVIOUS
<1>1. /\ LoginsTypeOK /\ CoreTypes /\ DatabaseTypes /\ MailTypes /\ Order /\ Located /\ ConnInv /\ MailInv /\ SoloInv
  BY DEF LoginsInv, SessionInv, LoginsTypeOK
<1>2. /\ out' = [out EXCEPT ![c] = Append(@, s)] /\ Playing(h) /\ budget' \in [Kinds -> Nat]
      /\ UNCHANGED <<conn, name, up, peers, in, kicks, made, key, login, logon, sql, cache, row, leaving, dropped, overtaken>>
  BY <1>0, <1>1, SpendIs DEF SaveReal, DatabaseTypes, Kinds, database, Home
<1>3. s \in Requests /\ s.op = "PLAYER_SAVE" /\ s.conn = h /\ s.char = conn[h].char /\ ~Half(s) /\ IsSave(s)
  BY <1>0, <1>1 DEF Msg, Requests, CoreTypes, ConnRecords, Half, IsSave
<1>4. Used(h) /\ Open(h) /\ Bound(h) /\ Unfinished(h) /\ c \in Cores /\ c \in up /\ c \in peers /\ conn[h].phase = "game"
  BY <1>1, <1>2, BoundIs DEF ConnInv, CoreTypes, Playing
<1> HIDE DEF c
<1>5. \A w \in Sent(c) : MayFollow(w, s)
  <2>1. SUFFICES ASSUME NEW w \in Sent(c), w.conn = h PROVE MayFollow(w, s)
    BY <1>3 DEF MayFollow
  <2>2. Timely(w)
    BY <1>1, <1>4, MailIs DEF MailInv
  <2>. QED BY <1>2, <1>3, <1>4, <2>1, <2>2 DEF MayFollow, Timely, IsSave
<1>6. /\ out' \in [Cores -> Seq(Requests)] /\ OutOrder' /\ HalfOrder' /\ ToDB' = ToDB \cup {s} /\ SameHalf
      /\ \A d \in Cores : Sent(d)' = IF d = c THEN Sent(d) \cup {s} ELSE Sent(d)
  BY <1>1, <1>2, <1>3, <1>4, <1>5, SendIs DEF Order, SameHalf
<1>7. (\A d \in Cores : Coming(d)' = Coming(d)) /\ ToCores' = ToCores /\ Asked' = Asked
  BY <1>2 DEF Coming, ToCores, Asked
<1>8. Mail' = Mail \cup {s}
  BY <1>6, <1>7 DEF Mail
<1>9. LoginsTypeOK' /\ Order'
  BY <1>1, <1>2, <1>6 DEF LoginsTypeOK, CoreTypes, DatabaseTypes, MailTypes, Order, InOrder, SqlOrder
<1>10. SameConns /\ Advances /\ Home(h)' = c
  BY <1>2, SameAdvances DEF SameConns, Home, c
<1>11. Located'
  <2>1. \A d \in Cores : (d \notin up' => in'[d] = <<>>) /\ (d \notin peers' => out'[d] = <<>>)
    BY <1>1, <1>2, <1>4 DEF Located, MailTypes
  <2>. QED BY <1>3, <1>6, <1>7, <1>10, <2>1, LocatedStep
<1>12. ConnInv'
  BY <1>1, <1>2, <1>10, KeyIs, SameConnInv
<1>13. Fits
  <2>1. Timely(s)' /\ s.op \notin Solo
    BY <1>2, <1>3, <1>4 DEF Timely, Used, Playing, Solo, Late
  <2>2. Alone(s)
    BY <1>1, <1>3, <1>4, <1>8 DEF SoloInv, Solo, Alone
  <2>. QED BY <1>3, <1>8, <1>10, <2>1, <2>2, SameView DEF Fits, NewMail
<1>14. CountInv'
  <2>1. \A g \in Conns : Bound(g)' => Unfinished(g)
    BY <1>10, SameView, BoundIs
  <2>. QED BY <1>2, <1>3, <1>4, <1>8, <1>9, <1>10, <2>1, CountStep
<1>15. ASSUME Orderly' PROVE CharInv'
  <2>1. Orderly /\ Saved' = Saved /\ made' = made
    BY <1>2, <1>15 DEF Orderly, Saved
  <2>2. HeldInv'
    BY <1>8, <1>10, <2>1, HeldStep DEF SameConns
  <2>3. NewChar(s)
    BY <1>2, <1>3 DEF NewChar, IsSave, IsLoad
  <2>. QED BY <1>6, <1>8, <1>10, <2>1, <2>2, <2>3, SameView, CharStep DEF SameHalf
<1>. QED BY <1>9, <1>10, <1>11, <1>12, <1>13, <1>14, <1>15, StepKeeps

-----------------------------------------------------------------------------
\* A client comes.

LEMMA LoginByKeyKeeps ==
    ASSUME LoginsInv, NEW h \in Conns, NEW c \in Cores, NEW k \in Keys, LoginByKey(h, c, k)
    PROVE  LoginsInv'
<1> DEFINE m == Msg("LOGIN_BY_KEY", h, k, {})
           r == [conn[h] EXCEPT !.core = c, !.key = k, !.phase = "login", !.client = TRUE]
<1>1. /\ LoginsTypeOK /\ CoreTypes /\ DatabaseTypes /\ MailTypes /\ Order /\ Located /\ ConnInv /\ MailInv /\ SoloInv
  BY DEF LoginsInv, SessionInv, LoginsTypeOK
<1>2. /\ conn' = [conn EXCEPT ![h] = r] /\ out' = [out EXCEPT ![c] = Append(@, m)]
      /\ conn[h] = Unused /\ c \in up /\ k \in 1 .. key
      /\ UNCHANGED <<name, up, peers, in, kicks, made, budget, key, login, logon, sql, cache, row, leaving, dropped, overtaken>>
  BY DEF LoginByKey, database
<1>3. m \in Requests /\ m.op = "LOGIN_BY_KEY" /\ m.conn = h /\ m.key = k /\ ~Half(m) /\ ~IsSave(m)
  BY DEF Msg, Requests, Half, IsSave, Keys
<1>4. r \in ConnRecords /\ r.core = c /\ r.key = k /\ r.phase = "login" /\ r.char = {}
  <2>1. conn[h] \in ConnRecords
    BY <1>1 DEF CoreTypes
  <2>2. conn[h].char = {} /\ k \in Nat
    BY <1>2 DEF Unused, Keys
  <2>. QED BY <2>1, <2>2 DEF ConnRecords, Phases
<1> HIDE DEF m, r
<1>5. /\ conn' \in [Conns -> ConnRecords] /\ conn'[h] = r
      /\ \A g \in Conns : g # h => /\ conn'[g] = conn[g] /\ Home(g)' = Home(g)
                                   /\ Used(g)' <=> Used(g)
                                   /\ Playing(g)' <=> Playing(g)
                                   /\ Bound(g)' <=> Bound(g)
                                   /\ Open(g)' <=> Open(g)
      /\ Home(h)' = r.core /\ (Used(h)' <=> r.phase # "unused") /\ (Playing(h)' <=> r.phase = "game")
      /\ (Bound(h)' <=> r.phase \in {"select", "game"}) /\ (Open(h)' <=> r.phase \in {"login", "select", "game"})
  BY <1>1, <1>2, <1>4, OneConn
<1>6. ~Used(h) /\ ~Bound(h) /\ ~Playing(h) /\ conn[h].char = {} /\ Used(h)' /\ ~Bound(h)' /\ ~Playing(h)' /\ Home(h)' = c
  BY <1>2, <1>4, <1>5 DEF Used, Bound, Playing, Unused
<1>7. \A w \in Mail : w.conn \in Conns /\ w.conn # h
  BY <1>6, BoundIs
<1>8. \A w \in Sent(c) : MayFollow(w, m)
  BY <1>3, <1>7, MailIs DEF MayFollow
<1>9. /\ out' \in [Cores -> Seq(Requests)] /\ OutOrder' /\ HalfOrder' /\ ToDB' = ToDB \cup {m} /\ SameHalf
      /\ \A d \in Cores : Sent(d)' = IF d = c THEN Sent(d) \cup {m} ELSE Sent(d)
  BY <1>1, <1>2, <1>3, <1>8, SendIs DEF Order, SameHalf
<1>10. (\A d \in Cores : Coming(d)' = Coming(d)) /\ ToCores' = ToCores /\ Asked' = Asked
  BY <1>2 DEF Coming, ToCores, Asked
<1>11. Mail' = Mail \cup {m}
  BY <1>9, <1>10 DEF Mail
<1>12. LoginsTypeOK' /\ Order'
  BY <1>1, <1>2, <1>5, <1>9 DEF LoginsTypeOK, CoreTypes, DatabaseTypes, MailTypes, Order, InOrder, SqlOrder
<1>13. Advances
  BY <1>5, <1>6 DEF Advances
<1>14. Located'
  <2>1. \A d \in Cores : (d \notin up' => in'[d] = <<>>) /\ (d \notin peers' => out'[d] = <<>>)
    <3>1. c \in peers
      BY <1>1, <1>2 DEF CoreTypes
    <3>. QED BY <1>1, <1>2, <3>1 DEF Located, MailTypes
  <2>. QED BY <1>3, <1>6, <1>9, <1>10, <1>13, <2>1, LocatedStep
<1>15. ConnInv'
  <2>1. ASSUME NEW d \in Cores, name'[d] # 0 PROVE Bound(name[d])' /\ Home(name[d])' = d
    <3>1. name[d] \in Conns /\ Bound(name[d]) /\ Home(name[d]) = d /\ name'[d] = name[d]
      BY <1>1, <1>2, <2>1 DEF ConnInv, CoreTypes, Conns
    <3>2. name[d] # h /\ conn'[name[d]] = conn[name[d]]
      BY <1>5, <1>6, <3>1
    <3>. QED BY <3>1, <3>2 DEF Bound, Home
  <2>2. \A g \in Conns : /\ Used(g)' => Home(g)' \in Cores /\ conn'[g].key \in 1 .. key'
                         /\ ~Playing(g)' => conn'[g].char = {}
                         /\ Open(g)' => Home(g)' \in up'
    BY <1>1, <1>2, <1>4, <1>5, <1>6 DEF ConnInv
  <2>. QED BY <2>1, <2>2 DEF ConnInv
<1>16. Fits
  <2>1. Timely(m)'
    BY <1>3, <1>6 DEF Timely, Late
  <2>2. Alone(m)
    BY <1>3, <1>7, <1>11 DEF Alone
  <2>. QED BY <1>3, <1>5, <1>6, <1>11, <2>1, <2>2 DEF Fits, NewMail
<1>17. CountInv'
  <2>1. \A g \in Conns : Bound(g)' => Unfinished(g)
    BY <1>5, <1>6, BoundIs
  <2>. QED BY <1>2, <1>3, <1>11, <1>12, <1>13, <2>1, CountStep DEF Claims
<1>18. ASSUME Orderly' PROVE CharInv'
  <2>1. Orderly /\ Saved' = Saved /\ made' = made
    BY <1>2, <1>18 DEF Orderly, Saved
  <2>2. \A g \in Conns : conn[g].char \subseteq conn'[g].char /\ (Playing(g)' => Playing(g))
    BY <1>5, <1>6
  <2>3. HeldInv'
    BY <1>11, <2>1, <2>2, HeldStep
  <2>4. NewChar(m)
    BY <1>3 DEF NewChar, IsSave, IsLoad
  <2>. QED BY <1>9, <1>11, <1>13, <2>1, <2>2, <2>3, <2>4, CharStep DEF SameHalf
<1>. QED BY <1>12, <1>13, <1>14, <1>15, <1>16, <1>17, <1>18, StepKeeps

-----------------------------------------------------------------------------
\* The DB process reads the first message of a core.
Reading(c, x) ==
    /\ c \in peers /\ out[c] # <<>> /\ x = Head(out[c]) /\ out' = [out EXCEPT ![c] = Tail(@)]
    /\ UNCHANGED <<conn, name, up, peers, kicks, key, made, budget>>

LEMMA BeforeOr ==
    ASSUME NEW T, NEW q \in Seq(T), NEW m \in Range(q), NEW w \in Range(q), m # w
    PROVE  <<m, w>> \in Before(q) \/ <<w, m>> \in Before(q)
<1>1. Len(q) \in Nat /\ Range(q) = {q[n] : n \in 1 .. Len(q)}
  BY RangeIs
<1>2. PICK n \in 1 .. Len(q), k \in 1 .. Len(q) : m = q[n] /\ w = q[k]
  BY <1>1
<1>3. n < k \/ k < n
  BY <1>1, <1>2
<1>. QED BY <1>2, <1>3, BeforeIs

LEMMA ReadFacts ==
    ASSUME LoginsInv, NEW c \in Cores, NEW x, Reading(c, x)
    PROVE  /\ out' \in [Cores -> Seq(Requests)] /\ OutOrder' /\ HalfOrder'
           /\ x \in Requests /\ x \in Mail /\ x.conn \in Conns /\ Used(x.conn) /\ Home(x.conn) = c /\ Timely(x)
           /\ Sent(c) = {x} \cup Sent(c)' /\ \A d \in Cores : d # c => Sent(d)' = Sent(d)
           /\ ToDB = {x} \cup ToDB' /\ \A d \in Cores : d \notin peers => out'[d] = <<>>
           /\ \A d \in Cores : HalfRead(d)' => HalfRead(d) \/ (d = c /\ Ends(x, Head(out[c])'))
           /\ \A w \in Sent(c)' : MayFollow(x, w)
           /\ \A w \in ToDB' \cup ToCores \cup Asked : w \in Mail /\ (x.op = "LOGIN_BY_KEY" => w.conn # x.conn)
           /\ SameConns /\ Advances /\ ConnInv'
<1>1. MailTypes /\ Order /\ Located /\ SoloInv /\ CoreTypes /\ MailInv /\ DatabaseTypes
  BY DEF LoginsInv, SessionInv, LoginsTypeOK
<1>2. /\ out' \in [Cores -> Seq(Requests)] /\ OutOrder' /\ HalfOrder' /\ x \in Sent(c) /\ x \in ToDB
      /\ \A d \in Cores : d # c => Sent(d)' = Sent(d) /\ (HalfRead(d)' <=> HalfRead(d))
      /\ Sent(c) = {x} \cup Sent(c)' /\ ToDB = {x} \cup ToDB'
      /\ \A w \in Sent(c)' : MayFollow(x, w)
      /\ HalfRead(c)' => Ends(x, Head(out[c])') /\ ~HalfRead(c)
  BY <1>1, ReadIs DEF Reading, Order
<1>3. x \in Requests /\ x \in Mail /\ x.conn \in Conns /\ Home(x.conn) = c /\ Used(x.conn) /\ Timely(x)
  BY <1>1, <1>2, MailTyped, MailIs, BoundIs DEF Located, MailInv
<1>4. \A d \in Cores : d \notin peers => out'[d] = <<>>
  BY <1>1 DEF Located, Reading, MailTypes
<1>5. \A d \in Cores : HalfRead(d)' => HalfRead(d) \/ (d = c /\ Ends(x, Head(out[c])'))
  BY <1>2
<1>6. \A w \in ToDB' \cup ToCores \cup Asked : w \in Mail
  BY <1>2, MailIs
<1>7. ASSUME NEW w \in ToDB' \cup ToCores \cup Asked, w.conn = x.conn, x.op = "LOGIN_BY_KEY" PROVE FALSE
  <2>1. w.op = "LOGIN_BY_KEY"
    BY <1>1, <1>3, <1>6, <1>7 DEF SoloInv, Solo
  <2>2. w \in ToDB'
    BY <1>1, <1>7, <2>1, MailTyped
  <2>3. PICK d \in Cores : w \in Sent(d)'
    BY <2>2, Zenon DEF ToDB
  <2>4. d = c
    <3>1. w \in Sent(d)
      BY <1>2, <2>3
    <3>. QED BY <1>1, <1>3, <1>7, <3>1 DEF Located
  <2>. QED BY <1>2, <1>7, <2>1, <2>3, <2>4 DEF MayFollow
<1>8. SameConns /\ Advances /\ ConnInv'
  <2>1. SameConns /\ key' \in Nat /\ key <= key' /\ name' = name /\ up' = up
    BY <1>1, KeyIs DEF Reading, SameConns
  <2>. QED BY <2>1, SameAdvances, SameConnInv
<1>. QED BY <1>2, <1>3, <1>4, <1>5, <1>6, <1>7, <1>8

\* What is asked is answered at once.
LEMMA AnswerKeeps ==
    ASSUME LoginsInv, NEW c \in Cores, NEW x, Reading(c, x), x.op \in {"LOGIN_BY_KEY", "PLAYER_LOAD"},
           NEW n \in Answers, Plain(n), n.conn = x.conn, Tell(c, n),
           login' \in [Keys -> LoginRecords], \A k \in Keys : login'[k].handle = login[k].handle,
           leaving' \in BOOLEAN, overtaken' \in BOOLEAN, overtaken => overtaken', UNCHANGED <<sql, logon, cache, row, dropped>>
    PROVE  LoginsInv'
<1>1. /\ LoginsTypeOK /\ CoreTypes /\ DatabaseTypes /\ MailTypes /\ Order /\ Located /\ SoloInv
  BY DEF LoginsInv, SessionInv, LoginsTypeOK
<1>2. /\ out' \in [Cores -> Seq(Requests)] /\ OutOrder' /\ HalfOrder'
      /\ x \in Mail /\ x.conn \in Conns /\ Home(x.conn) = c
      /\ Sent(c) = {x} \cup Sent(c)' /\ \A d \in Cores : d # c => Sent(d)' = Sent(d)
      /\ ToDB = {x} \cup ToDB' /\ \A d \in Cores : d \notin peers => out'[d] = <<>>
      /\ \A d \in Cores : HalfRead(d)' => HalfRead(d) \/ (d = c /\ Ends(x, Head(out[c])'))
      /\ \A w \in ToDB' \cup ToCores \cup Asked : w \in Mail /\ (x.op = "LOGIN_BY_KEY" => w.conn # x.conn)
      /\ SameConns /\ Advances
  BY ReadFacts
<1>3. n.op \notin Solo /\ ~IsSave(n) /\ ~IsSave(x) /\ n.op # "LOGIN_SUCCESS"
  BY DEF Plain, Solo, IsSave
<1>4. SameHalf
  BY <1>2 DEF SameHalf, Ends
<1>5. /\ in' \in [Cores -> Seq(Answers)] /\ InOrder'
      /\ \A d \in Cores : Coming(d)' = IF d = c /\ c \in up THEN Coming(d) \cup {n} ELSE Coming(d)
      /\ ToCores' = IF c \in up THEN ToCores \cup {n} ELSE ToCores
      /\ \A d \in Cores \ up : in'[d] = in[d]
  BY <1>1, <1>3, TellIs DEF Order, MayAnswer
<1>6. UNCHANGED <<conn, name, up, peers, kicks, key, made, budget>>
  BY DEF Reading
<1>7. Asked' = Asked /\ Saved' = Saved
  BY DEF Asked, Saved
<1>8. Mail = {x} \cup ToDB' \cup ToCores \cup Asked /\ (\A m \in Mail' : m = n \/ m \in ToDB' \cup ToCores \cup Asked)
      /\ ToDB' \cup ToCores \cup Asked \subseteq Mail'
  <2>1. Mail = ToDB \cup ToCores \cup Asked /\ Mail' = ToDB' \cup ToCores' \cup Asked'
    BY Zenon DEF Mail
  <2>. QED BY <1>2, <1>5, <1>7, <2>1
<1>9. LoginsTypeOK' /\ Order'
  BY <1>1, <1>2, <1>5, <1>6 DEF LoginsTypeOK, CoreTypes, DatabaseTypes, MailTypes, Order, SqlOrder
<1>10. Located'
  <2>1. \A d \in Cores : (d \notin up' => in'[d] = <<>>) /\ (d \notin peers' => out'[d] = <<>>)
    BY <1>1, <1>2, <1>5, <1>6 DEF Located
  <2>2. \A d \in Cores : \A m \in Coming(d)' : m \in Coming(d) \/ Home(m.conn)' = d
    BY <1>2, <1>5, SameView
  <2>3. \A d \in Cores : \A m \in Sent(d)' : m \in Sent(d)
    BY <1>2
  <2>. QED BY <1>2, <1>7, <2>1, <2>2, <2>3, LocatedStep
<1>11. StillMail
  <2>1. Alone(n)
    <3>1. SUFFICES ASSUME NEW w \in Mail', w.conn = n.conn, w # n PROVE w.op \notin Solo
      BY <1>3 DEF Alone
    <3>2. w \in ToDB' \cup ToCores \cup Asked
      BY <1>8, <3>1
    <3>3. x.op = "PLAYER_LOAD" /\ w \in Mail
      BY <1>2, <3>1, <3>2
    <3>. QED BY <1>1, <1>2, <3>1, <3>3 DEF SoloInv, Solo
  <2>2. \A m \in Mail : IsSave(m) => m \in Mail'
    BY <1>3, <1>8
  <2>3. \A m \in Mail' : m \in Mail \/ m = n
    BY <1>2, <1>8
  <2>. QED BY <2>1, <2>2, <2>3 DEF StillMail
<1>12. SameLogon /\ SameData /\ key <= key' /\ OrderlyStep
  BY <1>1, <1>6, <1>7, KeyIs, OrderlyIs DEF SameLogon, SameData, OrderlyStep, Orderly
<1>13. \A m \in Mail' : m \in Mail \/ m.op # "LOGIN_SUCCESS"
  BY <1>2, <1>3, <1>8
<1>. QED BY <1>2, <1>4, <1>9, <1>10, <1>11, <1>12, <1>13, PlainStep

\* What is asked needs a query.
LEMMA QueryIs ==
    ASSUME LoginsInv, NEW c \in Cores, NEW x, Reading(c, x),
           NEW q \in Queries, q.core = c, q.conn = x.conn, sql' = Append(sql, q), in' = in,
           \/ x.op = "PLAYER_LOAD" /\ Plain(q)
           \/ x.op = "LOGIN_BY_KEY" /\ Asking(q),
           login' \in [Keys -> LoginRecords],
           logon' = logon \/ logon' = 0, dropped' \in Nat, overtaken' \in BOOLEAN,
           leaving' \in BOOLEAN, UNCHANGED <<cache, row>>
    PROVE  /\ LoginsTypeOK' /\ Located' /\ Order' /\ SameConns /\ Advances /\ SameData /\ SameHalf /\ StillMail /\ key <= key'
           /\ \A m \in Mail' : m \in Mail \/ (~Claims(m) /\ m.op # "LOGIN_SUCCESS")
<1>1. /\ LoginsTypeOK /\ CoreTypes /\ DatabaseTypes /\ MailTypes /\ Order /\ Located /\ SoloInv
  BY DEF LoginsInv, SessionInv, LoginsTypeOK
<1>2. /\ out' \in [Cores -> Seq(Requests)] /\ OutOrder' /\ HalfOrder'
      /\ x \in Mail /\ x.conn \in Conns /\ Home(x.conn) = c
      /\ Sent(c) = {x} \cup Sent(c)' /\ \A d \in Cores : d # c => Sent(d)' = Sent(d)
      /\ ToDB = {x} \cup ToDB' /\ \A d \in Cores : d \notin peers => out'[d] = <<>>
      /\ \A d \in Cores : HalfRead(d)' => HalfRead(d) \/ (d = c /\ Ends(x, Head(out[c])'))
      /\ \A w \in ToDB' \cup ToCores \cup Asked : w \in Mail /\ (x.op = "LOGIN_BY_KEY" => w.conn # x.conn)
      /\ SameConns /\ Advances
  BY ReadFacts
<1>3. /\ q.op \notin {"LOGIN_SUCCESS", "LOGOUT"} /\ ~IsSave(q) /\ (x.op = "PLAYER_LOAD" => q.op \notin Solo)
      /\ ~IsSave(x) /\ x.op # "LOGOUT"
  <2>1. q.op \in {"LOGIN", "PLAYER"}
    BY DEF Queries
  <2>. QED BY <2>1 DEF Plain, Solo, IsSave
<1>4. \A w \in Asked : MayResult(w, q)
  <2>1. CASE x.op = "PLAYER_LOAD"
    BY <1>3, <2>1 DEF MayResult, Solo
  <2>2. CASE x.op = "LOGIN_BY_KEY"
    BY <1>2, <2>2 DEF MayResult
  <2>. QED BY <2>1, <2>2
<1>5. sql' \in Seq(Queries) /\ SqlOrder' /\ Asked' = Asked \cup {q}
  BY <1>1, <1>4, AskIs DEF Order
<1>6. UNCHANGED <<conn, name, up, peers, kicks, key, made, budget>>
  BY DEF Reading
<1>7. ToCores' = ToCores /\ Saved' = Saved /\ \A d \in Cores : Coming(d)' = Coming(d)
  BY DEF ToCores, Coming, Saved
<1>8. Mail = {x} \cup ToDB' \cup ToCores \cup Asked /\ Mail' = ToDB' \cup ToCores \cup Asked \cup {q}
  <2>1. Mail = ToDB \cup ToCores \cup Asked /\ Mail' = ToDB' \cup ToCores' \cup Asked'
    BY Zenon DEF Mail
  <2>. QED BY <1>2, <1>5, <1>7, <2>1
<1>9. LoginsTypeOK' /\ Order'
  <2>1. logon' \in 0 .. key'
    BY <1>1, <1>6, KeyIs DEF DatabaseTypes
  <2>. QED BY <1>1, <1>2, <1>5, <1>6, <2>1 DEF LoginsTypeOK, CoreTypes, DatabaseTypes, MailTypes, Order, InOrder
<1>10. Located'
  <2>1. \A d \in Cores : (d \notin up' => in'[d] = <<>>) /\ (d \notin peers' => out'[d] = <<>>)
    BY <1>1, <1>2, <1>6 DEF Located
  <2>2. Home(q.conn)' = q.core
    BY <1>2, SameView
  <2>3. \A d \in Cores : \A m \in Sent(d)' : m \in Sent(d)
    BY <1>2
  <2>. QED BY <1>2, <1>5, <1>7, <2>1, <2>2, <2>3, LocatedStep
<1>11. StillMail
  <2>1. Alone(q)
    <3>1. SUFFICES ASSUME NEW w \in Mail', w.conn = q.conn, w # q PROVE w.op \notin Solo /\ q.op \notin Solo
      BY DEF Alone
    <3>2. w \in ToDB' \cup ToCores \cup Asked
      BY <1>8, <3>1
    <3>3. x.op = "PLAYER_LOAD" /\ w \in Mail
      BY <1>2, <3>1, <3>2
    <3>. QED BY <1>1, <1>2, <1>3, <3>1, <3>3 DEF SoloInv, Solo
  <2>2. \A m \in Mail : IsSave(m) => m \in Mail'
    BY <1>3, <1>8
  <2>3. \A m \in Mail' : m \in Mail \/ m = q
    BY <1>2, <1>8
  <2>. QED BY <2>1, <2>2, <2>3 DEF StillMail
<1>12. SameData /\ key <= key' /\ SameHalf
  BY <1>1, <1>2, <1>3, <1>6, <1>7, KeyIs DEF SameData, SameHalf, Ends
<1>13. \A m \in Mail' : m \in Mail \/ (~Claims(m) /\ m.op # "LOGIN_SUCCESS")
  BY <1>2, <1>3, <1>8 DEF Claims
<1>. QED BY <1>2, <1>9, <1>10, <1>11, <1>12, <1>13

LEMMA DeleteIs ==
    ASSUME DatabaseTypes, NEW d, DeleteLogonAccount(d)
    PROVE  /\ login' \in [Keys -> LoginRecords] /\ \A k \in Keys : login'[k].handle = login[k].handle
           /\ logon' = IF logon # 0 /\ login[logon].handle = d THEN 0 ELSE logon
<1>1. CASE logon # 0 /\ login[logon].handle = d
  <2>1. logon \in Keys /\ logon' = 0 /\ login' = [login EXCEPT ![logon].play = FALSE]
    BY <1>1, KeyIs DEF DeleteLogonAccount
  <2> DEFINE r == [login[logon] EXCEPT !.play = FALSE]
  <2>2. login \in [Keys -> LoginRecords] /\ login[logon] \in LoginRecords
    BY <2>1 DEF DatabaseTypes
  <2>3. r \in LoginRecords /\ r.handle = login[logon].handle /\ login' = [login EXCEPT ![logon] = r]
    BY <2>1, <2>2 DEF LoginRecords
  <2> HIDE DEF r
  <2>. QED BY <1>1, <2>1, <2>2, <2>3
<1>2. CASE ~(logon # 0 /\ login[logon].handle = d)
  BY <1>2 DEF DeleteLogonAccount, DatabaseTypes
<1>. QED BY <1>1, <1>2

\* What is left of the sessions when nothing new is.
LEMMA ClaimsLeft ==
    ASSUME LoginsInv, LoginsTypeOK', SameConns, \A m \in Mail' : m \in Mail \/ ~Claims(m)
    PROVE  \A h \in Conns : Unfinished(h)' =>
               /\ Unfinished(h) /\ Home(h)' = Home(h)
               /\ Bound(h) \/ \E m \in Mail' : m.conn = h /\ Claims(m)
<1>1. SUFFICES ASSUME NEW h \in Conns, Unfinished(h)'
               PROVE  /\ Unfinished(h) /\ Home(h)' = Home(h)
                      /\ Bound(h) \/ \E m \in Mail' : m.conn = h /\ Claims(m)
  OBVIOUS
<1>2. MailTypes /\ MailTypes'
  BY DEF LoginsInv, SessionInv, LoginsTypeOK
<1>3. Bound(h)' \/ \E m \in Mail' : m.conn = h /\ Claims(m)
  BY <1>1, <1>2, UnfinishedNext DEF UnfinishedMeans
<1>. QED BY <1>3, BoundIs, SameView

\* LOGIN_BY_KEY: the logon may be taken from who has it.
LEMMA ReadLoginByKey ==
    ASSUME LoginsInv, NEW c \in Cores, NEW x, Reading(c, x), x.op = "LOGIN_BY_KEY", QUERY_LOGIN_BY_KEY(c, x), UNCHANGED leaving
    PROVE  LoginsInv'
<1>1. DatabaseTypes /\ MailInv /\ SoloInv /\ MailTypes /\ CountInv
  BY DEF LoginsInv, SessionInv, LoginsTypeOK
<1>2. x \in Mail /\ x.conn \in Conns /\ Used(x.conn) /\ Home(x.conn) = c
  BY ReadFacts
<1>3. leaving' \in BOOLEAN /\ overtaken' = overtaken /\ overtaken \in BOOLEAN /\ UNCHANGED <<cache, row>>
  BY <1>1 DEF DatabaseTypes, QUERY_LOGIN_BY_KEY
<1>4. CASE x.key # key
  <2> DEFINE n == Msg("LOGIN_NOT_EXIST", x.conn, 0, {})
  <2>1. Tell(c, n) /\ UNCHANGED <<login, logon, sql, dropped>>
    BY <1>4 DEF QUERY_LOGIN_BY_KEY
  <2>2. n \in Answers /\ n.conn = x.conn /\ n.op = "LOGIN_NOT_EXIST"
    BY <1>2 DEF Msg, Answers
  <2> HIDE DEF n
  <2>3. Plain(n)
    BY <1>2, <2>2 DEF Plain, Late, IsLoad
  <2>4. login' \in [Keys -> LoginRecords] /\ \A k \in Keys : login'[k].handle = login[k].handle
    BY <1>1, <2>1 DEF DatabaseTypes
  <2>. QED BY <1>3, <2>1, <2>2, <2>3, <2>4, AnswerKeeps
<1>5. CASE x.key = key
  <2> DEFINE q == [op |-> "LOGIN", core |-> c, conn |-> x.conn, char |-> {}]
  <2>1. /\ DeleteLogonAccount(login[key].handle) /\ sql' = Append(sql, q) /\ in' = in
        /\ dropped' = IF Deletes /\ Holders # {} THEN dropped + 1 ELSE dropped
    BY <1>5 DEF QUERY_LOGIN_BY_KEY
  <2>2. q \in Queries /\ q.conn = x.conn /\ q.op = "LOGIN" /\ q.core = c
    BY <1>2 DEF Queries
  <2> HIDE DEF q
  <2>3. Asking(q)
    BY <1>1, <1>2, <2>2 DEF Asking, SoloInv, Solo
  <2>4. /\ login' \in [Keys -> LoginRecords] /\ \A k \in Keys : login'[k].handle = login[k].handle
        /\ logon' = IF Deletes THEN 0 ELSE logon
    BY <1>1, <2>1, DeleteIs DEF Deletes
  <2>5. dropped \in Nat /\ dropped' \in Nat /\ dropped <= dropped'
    BY <1>1, <2>1 DEF DatabaseTypes
  <2>6. /\ LoginsTypeOK' /\ Located' /\ Order' /\ SameConns /\ Advances /\ SameData /\ SameHalf /\ StillMail /\ key <= key'
        /\ \A m \in Mail' : m \in Mail \/ (~Claims(m) /\ m.op # "LOGIN_SUCCESS")
    BY <1>3, <2>1, <2>2, <2>3, <2>4, <2>5, QueryIs
  <2>7. OrderlyStep
    BY <1>1, <1>3, <2>5, OrderlyIs DEF OrderlyStep
  <2>8. \A h \in Conns : Unfinished(h)' => Unfinished(h) /\ Home(h)' = Home(h)
    BY <2>6, ClaimsLeft
  <2>9. CountInv'
    <3>1. CASE ~Deletes
      <4>1. logon' = logon /\ dropped' = dropped /\ (logon # 0 => login'[logon].handle = login[logon].handle)
        BY <1>1, <2>1, <2>4, <3>1, KeyIs
      <4>. QED BY <2>8, <4>1, CountKeeps
    <3>2. CASE Deletes /\ Holders = {}
      <4>1. \A h \in Conns : Unfinished(h) => ~HasLogon(h)
        BY <3>2 DEF Holders, HasLogon, Home
      <4>2. logon' = 0 /\ dropped' = dropped
        BY <2>1, <2>4, <3>2
      <4>. QED BY <2>8, <4>1, <4>2, CountEnds
    <3>3. CASE Deletes /\ Holders # {}
      <4>1. logon' = 0 /\ dropped' = dropped + 1
        BY <2>1, <2>4, <3>3
      <4>2. Claimants' \subseteq Claimants /\ Claimants \subseteq Conns /\ Strangers' \subseteq Claimants'
        BY <2>8 DEF Claimants, Strangers
      <4>3. Cardinality(Claimants') <= Cardinality(Claimants) /\ Cardinality(Strangers') <= Cardinality(Claimants')
        BY <4>2, ClaimantsAre
      <4>4. Cardinality(Claimants) \in Nat /\ Cardinality(Claimants') \in Nat /\ Cardinality(Strangers') \in Nat
        BY <4>2, ClaimantsAre
      <4>5. Cardinality(Claimants) <= dropped + 1
        BY <1>1, <2>5, <4>4 DEF CountInv
      <4>6. Cardinality(Claimants') <= dropped' /\ Cardinality(Strangers') <= dropped'
        BY <2>5, <4>1, <4>3, <4>4, <4>5
      <4>7. dropped' + (IF logon' = 0 THEN 0 ELSE 1) = dropped'
        BY <2>5, <4>1
      <4>. QED BY <4>6, <4>7 DEF CountInv
    <3>. QED BY <3>1, <3>2, <3>3
  <2>10. Orderly' => HalfInv'
    BY <2>6, <2>7, HalfKeeps
  <2>. QED BY <2>6, <2>7, <2>9, <2>10, StillStep
<1>. QED BY <1>4, <1>5

\* A load: the cache is what was saved last, or the row is.
LEMMA ReadPlayerLoad ==
    ASSUME LoginsInv, NEW c \in Cores, NEW x, Reading(c, x), x.op = "PLAYER_LOAD", QUERY_PLAYER_LOAD(c, x.conn)
    PROVE  LoginsInv'
<1> DEFINE h == x.conn
<1>1. DatabaseTypes /\ MailInv /\ MailTypes /\ ConnInv
  BY DEF LoginsInv, SessionInv, LoginsTypeOK
<1>2. x \in Mail /\ h \in Conns /\ Used(h) /\ Home(h) = c /\ conn[h].phase # "login"
      /\ \A d \in Cores : HalfRead(d)' => HalfRead(d)
  BY <1>1, ReadFacts DEF Timely, Late, Ends
<1>3. /\ leaving' \in BOOLEAN /\ overtaken' \in BOOLEAN /\ (overtaken => overtaken') /\ UNCHANGED <<logon, cache, row, dropped>>
      /\ Orderly' => Orderly /\ \A d \in Cores : ~HalfRead(d)
  <2>1. leaving' = (leaving /\ ~login[key].players) /\ overtaken' = (overtaken \/ \E d \in Cores : HalfRead(d))
    BY DEF QUERY_PLAYER_LOAD
  <2>. QED BY <2>1 DEF QUERY_PLAYER_LOAD, Orderly
<1>4. Orderly' => (conn[h].phase = "select" => made \subseteq Saved) /\ \A d \in Cores : ~HalfRead(d)'
  BY <1>2, <1>3, SelectedHas
<1> HIDE DEF h
<1>5. CASE cache = NoCache
  <2> DEFINE q == [op |-> "PLAYER", core |-> c, conn |-> h, char |-> row]
  <2>1. sql' = Append(sql, q) /\ in' = in /\ login' = login
    BY <1>5 DEF QUERY_PLAYER_LOAD, h
  <2>2. q \in Queries /\ q.conn = h /\ q.op = "PLAYER" /\ q.core = c /\ q.char = row
    BY <1>1, <1>2 DEF Queries, DatabaseTypes
  <2> HIDE DEF q
  <2>3. Plain(q) /\ q.conn = x.conn
    BY <1>2, <1>4, <1>5, <2>2 DEF Plain, Saved, h
  <2>4. login' \in [Keys -> LoginRecords] /\ dropped' \in Nat /\ SameLogon
    BY <1>1, <1>3, <2>1 DEF DatabaseTypes, SameLogon
  <2>5. OrderlyStep
    BY <1>3 DEF OrderlyStep
  <2>6. /\ LoginsTypeOK' /\ Located' /\ Order' /\ SameConns /\ SameData /\ SameHalf /\ StillMail /\ key <= key'
        /\ \A m \in Mail' : m \in Mail \/ (~Claims(m) /\ m.op # "LOGIN_SUCCESS")
    BY <1>3, <2>1, <2>2, <2>3, <2>4, QueryIs
  <2>. QED BY <2>4, <2>5, <2>6, PlainStep
<1>6. CASE cache # NoCache
  <2>1. sql' = sql /\ IF login[key].play THEN LoadFails(c, h) ELSE LoadSucceeds(c, h, cache)
    BY <1>6 DEF QUERY_PLAYER_LOAD, h
  <2>2. CASE LoadFails(c, h)
    <3> DEFINE n == Msg("PLAYER_LOAD_FAILED", h, 0, {})
    <3>1. Tell(c, n) /\ login' = login
      BY <2>2 DEF LoadFails
    <3>2. n \in Answers /\ n.conn = h /\ n.op = "PLAYER_LOAD_FAILED"
      BY <1>2 DEF Msg, Answers
    <3> HIDE DEF n
    <3>3. Plain(n) /\ n.conn = x.conn
      BY <1>2, <3>2 DEF Plain, Late, IsLoad, h
    <3>4. login' \in [Keys -> LoginRecords] /\ \A k \in Keys : login'[k].handle = login[k].handle
      BY <1>1, <3>1 DEF DatabaseTypes
    <3>. QED BY <1>3, <2>1, <3>1, <3>2, <3>3, <3>4, AnswerKeeps
  <2>3. CASE LoadSucceeds(c, h, cache)
    <3> DEFINE n == Msg("PLAYER_LOAD_SUCCESS", h, 0, cache)
    <3>1. Tell(c, n) /\ login' = [login EXCEPT ![key].play = TRUE]
      BY <2>3 DEF LoadSucceeds
    <3>2. n \in Answers /\ n.conn = h /\ n.op = "PLAYER_LOAD_SUCCESS" /\ n.char = cache
      BY <1>1, <1>2, <1>6 DEF Msg, Answers, DatabaseTypes
    <3>3. PICK nn : nn = n
      OBVIOUS
    <3> HIDE DEF n
    <3>4. Plain(nn) /\ nn.conn = x.conn /\ nn \in Answers /\ Tell(c, nn)
      BY <1>2, <1>4, <1>6, <3>1, <3>2, <3>3 DEF Plain, Saved, h
    <3>5. login' \in [Keys -> LoginRecords] /\ \A k \in Keys : login'[k].handle = login[k].handle
      BY <1>1, <3>1 DEF DatabaseTypes, LoginRecords
    <3>. QED BY <1>3, <2>1, <3>4, <3>5, AnswerKeeps
  <2>. QED BY <2>1, <2>2, <2>3
<1>. QED BY <1>5, <1>6

\* A logout: who sent it has nothing more under way but half of a move.
LEMMA ReadLogout ==
    ASSUME LoginsInv, NEW c \in Cores, NEW x, Reading(c, x), x.op = "LOGOUT", QUERY_LOGOUT(c)
    PROVE  LoginsInv'
<1> DEFINE h == x.conn
<1>1. /\ LoginsTypeOK /\ CoreTypes /\ DatabaseTypes /\ MailTypes /\ Order /\ Located /\ SoloInv /\ CountInv
  BY DEF LoginsInv, SessionInv, LoginsTypeOK
<1>2. /\ out' \in [Cores -> Seq(Requests)] /\ OutOrder' /\ HalfOrder'
      /\ x \in Mail /\ h \in Conns /\ Home(h) = c /\ Timely(x)
      /\ Sent(c) = {x} \cup Sent(c)' /\ \A d \in Cores : d # c => Sent(d)' = Sent(d)
      /\ ToDB = {x} \cup ToDB' /\ \A d \in Cores : d \notin peers => out'[d] = <<>>
      /\ \A d \in Cores : HalfRead(d)' => HalfRead(d) \/ (d = c /\ Ends(x, Head(out[c])'))
      /\ \A w \in Sent(c)' : MayFollow(x, w)
      /\ SameConns /\ Advances
  BY ReadFacts
<1>3. UNCHANGED <<conn, name, up, peers, kicks, key, made, budget, in, sql, cache, row, dropped, overtaken>> /\ leaving' \in BOOLEAN
      /\ DeleteLogonAccount(c)
  <2>1. leaving' = (leaving \/ login[key].players)
    BY DEF QUERY_LOGOUT
  <2>. QED BY <2>1 DEF QUERY_LOGOUT, Reading
<1>4. login' \in [Keys -> LoginRecords] /\ (\A k \in Keys : login'[k].handle = login[k].handle)
      /\ logon' = IF logon # 0 /\ login[logon].handle = c THEN 0 ELSE logon
  BY <1>1, <1>3, DeleteIs
<1>5. /\ ToCores' = ToCores /\ Asked' = Asked /\ Saved' = Saved /\ \A d \in Cores : Coming(d)' = Coming(d)
  BY <1>3 DEF ToCores, Asked, Coming, Saved
<1>6. Mail = {x} \cup Mail' /\ Mail' = ToDB' \cup ToCores \cup Asked
  <2>1. Mail = ToDB \cup ToCores \cup Asked /\ Mail' = ToDB' \cup ToCores' \cup Asked'
    BY Zenon DEF Mail
  <2>. QED BY <1>2, <1>5, <2>1
<1>7. LoginsTypeOK' /\ Order'
  <2>1. logon' \in 0 .. key'
    BY <1>1, <1>3, <1>4, KeyIs DEF DatabaseTypes
  <2>. QED BY <1>1, <1>2, <1>3, <1>4, <2>1 DEF LoginsTypeOK, CoreTypes, DatabaseTypes, MailTypes, Order, InOrder, SqlOrder
<1>8. Located'
  <2>1. \A d \in Cores : (d \notin up' => in'[d] = <<>>) /\ (d \notin peers' => out'[d] = <<>>)
    BY <1>1, <1>2, <1>3 DEF Located
  <2>. QED BY <1>2, <1>5, <2>1, LocatedStep
<1>9. StillMail /\ SameData /\ key <= key' /\ OrderlyStep
  <2>1. ~IsSave(x)
    BY DEF IsSave
  <2>. QED BY <1>1, <1>3, <1>5, <1>6, <2>1, KeyIs, SameOrderly DEF StillMail, SameData
<1>10. ~Bound(h) /\ Unfinished(h) /\ \A w \in Mail' : w.conn = h => ~Claims(w) /\ (IsSave(w) => Half(w))
  <2>1. ~Bound(h)
    BY <1>2 DEF Timely, Bound
  <2>2. Unfinished(h)
    BY <1>2, BoundIs DEF Claims
  <2>3. ASSUME NEW w \in Mail', w.conn = h PROVE ~Claims(w) /\ (IsSave(w) => Half(w))
    <3>1. w.op # "LOGIN_SUCCESS"
      BY <1>1, <1>2, <1>6, <2>3 DEF SoloInv, Solo
    <3>2. ASSUME w.op = "LOGOUT" \/ IsSave(w) PROVE w.op # "LOGOUT" /\ Half(w)
      <4>1. w \in ToDB'
        BY <1>1, <1>6, <3>2, MailTyped DEF IsSave
      <4>2. PICK d \in Cores : w \in Sent(d)'
        BY <4>1, Zenon DEF ToDB
      <4>3. w \in Sent(d)
        BY <1>2, <4>2
      <4>4. d = c
        BY <1>1, <1>2, <2>3, <4>3 DEF Located
      <4>. QED BY <1>2, <2>3, <3>2, <4>2, <4>4 DEF MayFollow, IsSave
    <3>. QED BY <3>1, <3>2 DEF Claims
  <2>. QED BY <2>1, <2>2, <2>3
<1>11. \A g \in Conns : Unfinished(g)' => Unfinished(g) /\ g # h /\ Home(g)' = Home(g)
  <2>1. \A m \in Mail' : m \in Mail
    BY <1>6
  <2>. QED BY <1>2, <1>7, <1>10, <2>1, ClaimsLeft
<1>12. CountInv'
  <2>1. CASE logon # 0 /\ login[logon].handle = c
    <3>1. logon' = 0 /\ dropped' = dropped /\ dropped \in Nat
      BY <1>1, <1>3, <1>4, <2>1 DEF DatabaseTypes
    <3>2. Claimants' \subseteq Claimants \ {h} /\ Claimants \subseteq Conns /\ Strangers' \subseteq Claimants' /\ h \in Claimants
      BY <1>2, <1>10, <1>11 DEF Claimants, Strangers
    <3>3. Claimants \ {h} \in SUBSET Conns /\ Claimants' \in SUBSET (Claimants \ {h})
      BY <3>2
    <3>4. /\ Cardinality(Claimants') <= Cardinality(Claimants \ {h}) /\ Cardinality(Strangers') <= Cardinality(Claimants')
          /\ Cardinality(Claimants \ {h}) = Cardinality(Claimants) - 1
      BY <3>2, <3>3, ClaimantsAre
    <3>5. Cardinality(Claimants) \in Nat /\ Cardinality(Claimants') \in Nat /\ Cardinality(Strangers') \in Nat
      BY <3>2, ClaimantsAre
    <3>6. Cardinality(Claimants) <= dropped + 1
      BY <1>1, <3>1, <3>5 DEF CountInv
    <3>7. Cardinality(Claimants') <= dropped' /\ Cardinality(Strangers') <= dropped'
      BY <3>1, <3>4, <3>5, <3>6
    <3>8. dropped' + (IF logon' = 0 THEN 0 ELSE 1) = dropped'
      BY <3>1
    <3>. QED BY <3>7, <3>8 DEF CountInv
  <2>2. CASE ~(logon # 0 /\ login[logon].handle = c)
    <3>1. logon' = logon /\ dropped' = dropped /\ (logon # 0 => login'[logon].handle = login[logon].handle)
      BY <1>1, <1>3, <1>4, <2>2, KeyIs
    <3>. QED BY <1>11, <3>1, CountKeeps
  <2>. QED BY <2>1, <2>2
<1>13. ASSUME Orderly', NEW d \in Cores, HalfRead(d)'
       PROVE  /\ \A g \in Conns : ~Playing(g)
              /\ \A m, w \in Mail' : IsSave(m) /\ IsSave(w) => m = w
              /\ \A m \in Mail' : IsLoad(m) => conn[m.conn].phase # "select"
  <2>1. Orderly /\ HalfInv
    BY <1>9, <1>13 DEF OrderlyStep, LoginsInv, CharInv
  <2>2. CASE HalfRead(d)
    BY <1>6, <2>1, <2>2 DEF HalfInv
  <2>3. CASE d = c /\ Ends(x, Head(out[c])')
    <3>1. PICK s : s = Head(out[c])'
      OBVIOUS
    <3>2. out'[c] # <<>> /\ IsSave(s) /\ Half(s) /\ s.conn = h
      BY <1>13, <2>3, <3>1 DEF HalfRead, Half, IsSave, Ends
    <3>3. s \in Sent(c)' /\ s \in Sent(c) /\ s \in Mail
      <4>1. out'[c] \in Seq(Requests)
        BY <1>2
      <4>2. s = out'[c][1] /\ 1 \in 1 .. Len(out'[c])
        BY <3>1, <3>2, <4>1
      <4>3. s \in Sent(c)'
        BY <4>1, <4>2, RangeIs DEF Sent
      <4>. QED BY <1>2, <4>3, MailIs
    <3>4. \A k \in Cores : ~HalfRead(k)
      <4>1. SUFFICES ASSUME NEW k \in Cores, HalfRead(k) PROVE FALSE
        OBVIOUS
      <4>2. PICK t : t = Head(out[k])
        OBVIOUS
      <4>3. out[k] \in Seq(Requests) /\ out[k] # <<>> /\ IsSave(t)
        BY <1>1, <4>1, <4>2 DEF MailTypes, HalfRead, IsSave
      <4>4. t = out[k][1] /\ 1 \in 1 .. Len(out[k])
        BY <4>2, <4>3
      <4>5. t \in Sent(k) /\ t \in Mail
        BY <4>3, <4>4, RangeIs, MailIs DEF Sent
      <4>6. t = s
        BY <2>1, <3>2, <3>3, <4>1, <4>3, <4>5 DEF HalfInv
      <4>7. k = c
        BY <1>1, <1>2, <3>2, <4>5, <4>6 DEF Located
      <4>. QED BY <4>1, <4>7 DEF Reading, HalfRead
    <3>5. \A g \in Conns : Unfinished(g) => g = h
      BY <1>2, <1>10, <2>1, OneClaim
    <3>6. \A g \in Conns : ~Bound(g) /\ ~Playing(g)
      BY <1>10, <3>5, BoundIs
    <3>7. ASSUME NEW m \in Mail', IsSave(m) PROVE m.conn = h /\ Half(m) /\ m \in Sent(c)'
      <4>1. m \in Mail /\ m \in Sent(Home(m.conn)) /\ Unfinished(m.conn) /\ m.conn \in Conns
        BY <1>6, <3>4, <3>7, SaveAt, BoundIs
      <4>2. m.conn = h
        BY <3>5, <4>1
      <4>3. m \in Sent(c) /\ m # x
        BY <1>2, <3>7, <4>1, <4>2 DEF IsSave
      <4>. QED BY <1>2, <1>10, <3>7, <4>2, <4>3
    <3>8. ASSUME NEW m \in Mail', NEW w \in Mail', IsSave(m), IsSave(w), m # w PROVE FALSE
      <4>1. m.conn = w.conn /\ Half(m) /\ Half(w) /\ m \in Range(out'[c]) /\ w \in Range(out'[c])
        BY <3>7, <3>8 DEF Sent
      <4>2. <<m, w>> \in Before(out'[c]) \/ <<w, m>> \in Before(out'[c])
        BY <1>2, <3>8, <4>1, BeforeOr
      <4>3. MayFollow(m, w) \/ MayFollow(w, m)
        <5>1. <<m, w>>[1] = m /\ <<m, w>>[2] = w /\ <<w, m>>[1] = w /\ <<w, m>>[2] = m
          OBVIOUS
        <5>. QED BY <1>2, <4>2, <5>1 DEF OutOrder
      <4>. QED BY <3>8, <4>1, <4>3 DEF MayFollow
    <3>9. \A m \in Mail' : IsLoad(m) => conn[m.conn].phase # "select"
      BY <1>6, <3>6, BoundIs DEF Bound
    <3>. QED BY <3>6, <3>8, <3>9
  <2>. QED BY <1>2, <1>13, <2>2, <2>3
<1>14. Orderly' => HalfInv'
  BY <1>3, <1>13 DEF HalfInv, Playing, IsSave, IsLoad
<1>. QED BY <1>2, <1>7, <1>8, <1>9, <1>12, <1>14, StillStep

\* A save: the next of the session's, or the half of a move that was left.
LEMMA ReadPlayerSave ==
    ASSUME LoginsInv, NEW c \in Cores, NEW x, Reading(c, x), x.op = "PLAYER_SAVE", QUERY_PLAYER_SAVE(x.char)
    PROVE  LoginsInv' /\ (Orderly' => Saved \subseteq Saved')
<1>1. /\ LoginsTypeOK /\ CoreTypes /\ DatabaseTypes /\ MailTypes /\ Order /\ Located /\ SoloInv /\ CountInv
  BY DEF LoginsInv, SessionInv, LoginsTypeOK
<1>2. /\ out' \in [Cores -> Seq(Requests)] /\ OutOrder' /\ HalfOrder'
      /\ x \in Mail /\ x.conn \in Conns /\ x \in Requests /\ Home(x.conn) = c /\ Timely(x)
      /\ Sent(c) = {x} \cup Sent(c)' /\ \A d \in Cores : d # c => Sent(d)' = Sent(d)
      /\ ToDB = {x} \cup ToDB' /\ \A d \in Cores : d \notin peers => out'[d] = <<>>
      /\ \A d \in Cores : HalfRead(d)' => HalfRead(d) \/ (d = c /\ Ends(x, Head(out[c])'))
      /\ \A w \in Sent(c)' : MayFollow(x, w)
      /\ SameConns /\ Advances /\ ConnInv'
  BY ReadFacts
<1>3. UNCHANGED <<conn, name, up, peers, kicks, key, made, budget, in, sql, login, logon, row, leaving, dropped, overtaken>>
      /\ cache' = x.char /\ IsSave(x)
  BY DEF QUERY_PLAYER_SAVE, Reading, IsSave
<1>4. x.char \subseteq Changes /\ Saved' = x.char
  <2>1. x.char \subseteq Changes
    BY <1>2 DEF Requests
  <2>2. x.char # NoCache
    BY <2>1, LoginAssumption
  <2>. QED BY <1>3, <2>1, <2>2 DEF Saved
<1>5. /\ ToCores' = ToCores /\ Asked' = Asked /\ \A d \in Cores : Coming(d)' = Coming(d)
  BY <1>3 DEF ToCores, Asked, Coming
<1>6. Mail = {x} \cup Mail' /\ Mail' = ToDB' \cup ToCores \cup Asked
  <2>1. Mail = ToDB \cup ToCores \cup Asked /\ Mail' = ToDB' \cup ToCores' \cup Asked'
    BY Zenon DEF Mail
  <2>. QED BY <1>2, <1>5, <2>1
<1>7. LoginsTypeOK' /\ Order'
  BY <1>1, <1>2, <1>3, <1>4 DEF LoginsTypeOK, CoreTypes, DatabaseTypes, MailTypes, Order, InOrder, SqlOrder
<1>8. Located'
  <2>1. \A d \in Cores : (d \notin up' => in'[d] = <<>>) /\ (d \notin peers' => out'[d] = <<>>)
    BY <1>1, <1>2, <1>3 DEF Located
  <2>. QED BY <1>2, <1>5, <2>1, LocatedStep
<1>9. Fits
  BY <1>2, <1>6, SameView DEF Fits
<1>10. CountInv'
  BY <1>2, <1>3, <1>6, <1>7, SameView, BoundIs, CountStep
<1>11. ASSUME Orderly' PROVE CharInv' /\ Saved \subseteq x.char
  <2>1. Orderly /\ HalfInv /\ ChainInv /\ HeldInv /\ LoadInv
    BY <1>3, <1>11 DEF Orderly, LoginsInv, CharInv
  <2>2. \A d \in Cores : HalfRead(d)' => HalfRead(d)
    BY <1>2 DEF Ends
  <2>3. HalfInv'
    <3>1. SUFFICES ASSUME NEW d \in Cores, HalfRead(d)
                   PROVE  /\ \A h \in Conns : ~Playing(h)'
                          /\ \A m, w \in Mail' : IsSave(m) /\ IsSave(w) => m = w
                          /\ \A m \in Mail' : IsLoad(m) => conn'[m.conn].phase # "select"
      BY <2>2 DEF HalfInv, IsSave, IsLoad
    <3>. QED BY <1>2, <1>3, <1>6, <2>1, <3>1, SameView DEF HalfInv
  <2>4. ASSUME NEW m \in Mail', IsSave(m) PROVE x.char \subseteq m.char
    <3>1. CASE \E d \in Cores : HalfRead(d)
      BY <1>2, <1>3, <1>6, <2>1, <2>4, <3>1 DEF HalfInv
    <3>2. CASE \A d \in Cores : ~HalfRead(d)
      <4>1. Unfinished(x.conn) /\ Unfinished(m.conn) /\ m.conn \in Conns
        BY <1>2, <1>3, <1>6, <2>4, <3>2, SaveAt, BoundIs
      <4>2. m.conn = x.conn
        BY <1>2, <2>1, <4>1, OneClaim
      <4>3. m \in ToDB'
        BY <1>1, <1>6, <2>4, MailTyped DEF IsSave
      <4>4. PICK d \in Cores : m \in Sent(d)'
        BY <4>3, Zenon DEF ToDB
      <4>5. m \in Sent(d)
        BY <1>2, <4>4
      <4>6. d = c
        BY <1>1, <1>2, <4>2, <4>5 DEF Located
      <4>. QED BY <1>2, <1>3, <2>4, <4>2, <4>4, <4>6 DEF MayFollow
    <3>. QED BY <3>1, <3>2
  <2>5. ASSUME NEW g \in Conns, Playing(g) PROVE x.char \subseteq conn[g].char
    <3>1. \A d \in Cores : ~HalfRead(d)
      BY <2>1, <2>5 DEF HalfInv
    <3>2. x.conn = g
      BY <1>2, <1>3, <2>1, <2>5, <3>1, BoundIs, BoundSaves
    <3>. QED BY <1>2, <1>3, <2>5, <3>2 DEF Timely
  <2>6. ChainInv'
    <3>1. \A m \in Mail' : IsSave(m) => Saved' \subseteq m.char
      BY <1>4, <2>4
    <3>2. \A g \in Conns : Playing(g)' => Saved' \subseteq conn'[g].char
      BY <1>2, <1>3, <1>4, <2>5, SameView
    <3>. QED BY <3>1, <3>2 DEF ChainInv, IsSave
  <2>7. Saved \subseteq x.char
    BY <1>2, <1>3, <2>1 DEF ChainInv
  <2>8. HeldInv'
    <3>1. ASSUME NEW e, Kept(e) PROVE Kept(e)'
      <4>1. CASE e \in Saved
        BY <1>4, <2>7, <4>1 DEF Kept
      <4>2. CASE \E h \in Conns : e \in conn[h].char
        BY <1>3, <4>2 DEF Kept
      <4>3. CASE \E m \in Mail : IsSave(m) /\ e \in m.char
        BY <1>4, <1>6, <4>3 DEF Kept, IsSave
      <4>. QED BY <3>1, <4>1, <4>2, <4>3 DEF Kept
    <3>. QED BY <1>3, <2>1, <3>1 DEF HeldInv
  <2>9. LoadInv'
    <3>1. SUFFICES ASSUME NEW m \in Mail', IsLoad(m), conn[m.conn].phase = "select" PROVE FALSE
      BY <1>3 DEF LoadInv, IsLoad
    <3>2. m \in Mail /\ m.conn \in Conns
      BY <1>6, <3>1, BoundIs
    <3>3. \A d \in Cores : ~HalfRead(d)
      BY <2>1, <3>1, <3>2 DEF HalfInv
    <3>. QED BY <1>2, <1>3, <2>1, <3>1, <3>2, <3>3, SelectedHas
  <2>. QED BY <2>3, <2>6, <2>7, <2>8, <2>9 DEF CharInv
<1>. QED BY <1>2, <1>4, <1>7, <1>8, <1>9, <1>10, <1>11, StepKeeps

LEMMA ReadCoreKeeps == ASSUME LoginsInv, NEW c \in Cores, ReadCore(c) PROVE LoginsInv' /\ (Orderly' => Saved \subseteq Saved')
<1>1. PICK x : x = Head(out[c])
  OBVIOUS
<1>2. Reading(c, x)
  BY <1>1 DEF ReadCore, Reading
<1>3. CASE x.op = "LOGIN_BY_KEY" /\ QUERY_LOGIN_BY_KEY(c, x)
  BY <1>2, <1>3, ReadLoginByKey DEF QUERY_LOGIN_BY_KEY, Saved
<1>4. CASE x.op = "LOGOUT" /\ QUERY_LOGOUT(c)
  BY <1>2, <1>4, ReadLogout DEF QUERY_LOGOUT, Saved
<1>5. CASE x.op = "PLAYER_LOAD" /\ QUERY_PLAYER_LOAD(c, x.conn)
  BY <1>2, <1>5, ReadPlayerLoad DEF QUERY_PLAYER_LOAD, Saved
<1>6. CASE x.op = "PLAYER_SAVE" /\ QUERY_PLAYER_SAVE(x.char)
  BY <1>2, <1>6, ReadPlayerSave
<1>. QED BY <1>1, <1>3, <1>4, <1>5, <1>6 DEF ReadCore

-----------------------------------------------------------------------------
\* The DB process has the result of a query.
Resulting(q) ==
    /\ sql # <<>> /\ q = Head(sql) /\ sql' = Tail(sql)
    /\ UNCHANGED <<conn, name, up, peers, out, kicks, key, cache, row, leaving, made, dropped, overtaken, budget>>

LEMMA ResultFacts ==
    ASSUME LoginsInv, NEW q, Resulting(q)
    PROVE  /\ sql' \in Seq(Queries) /\ SqlOrder' /\ Asked = {q} \cup Asked'
           /\ q \in Queries /\ q \in Mail /\ q.op \in {"LOGIN", "PLAYER"} /\ q.core \in Cores
           /\ q.conn \in Conns /\ Used(q.conn) /\ Home(q.conn) = q.core /\ Timely(q)
           /\ \A c \in Cores : (HalfRead(c)' <=> HalfRead(c)) /\ Sent(c)' = Sent(c)
           /\ ToDB' = ToDB /\ OutOrder' /\ HalfOrder' /\ Mail = {q} \cup ToDB \cup ToCores \cup Asked'
           /\ SameConns /\ Advances /\ SameData /\ SameHalf /\ OrderlyStep /\ key <= key'
           /\ \A w \in ToDB \cup ToCores \cup Asked' : w \in Mail /\ (q.op = "LOGIN" => w.conn # q.conn)
<1>1. MailTypes /\ Order /\ Located /\ SoloInv /\ DatabaseTypes /\ MailInv
  BY DEF LoginsInv, SessionInv, LoginsTypeOK
<1>2. sql' \in Seq(Queries) /\ SqlOrder' /\ q \in Asked /\ Asked = {q} \cup Asked' /\ \A w \in Asked' : MayResult(q, w)
  BY <1>1, ResultIs DEF Resulting, Order
<1>3. q \in Queries /\ q \in Mail /\ q.conn \in Conns /\ Home(q.conn) = q.core /\ Used(q.conn) /\ Timely(q)
      /\ q.op \in {"LOGIN", "PLAYER"} /\ q.core \in Cores
  BY <1>1, <1>2, MailTyped, MailIs, BoundIs DEF Located, MailInv
<1>4. ToDB' = ToDB /\ \A c \in Cores : (HalfRead(c)' <=> HalfRead(c)) /\ Sent(c)' = Sent(c)
  BY DEF Resulting, HalfRead, Sent, ToDB
<1>5. OutOrder' /\ HalfOrder'
  BY <1>1 DEF Resulting, Order, OutOrder, HalfOrder
<1>6. SameConns /\ SameData /\ SameHalf /\ OrderlyStep /\ key <= key'
  BY <1>1, <1>4, KeyIs, SameOrderly DEF Resulting, SameConns, SameData, Saved, SameHalf
<1>7. Mail = {q} \cup ToDB \cup ToCores \cup Asked'
  <2>1. Mail = ToDB \cup ToCores \cup Asked
    BY Zenon DEF Mail
  <2>. QED BY <1>2, <2>1
<1>8. ASSUME NEW w \in ToDB \cup ToCores \cup Asked', w.conn = q.conn, q.op = "LOGIN" PROVE FALSE
  <2>1. w.op = "LOGIN"
    BY <1>1, <1>3, <1>7, <1>8 DEF SoloInv, Solo
  <2>2. w \in Asked'
    BY <1>1, <1>8, <2>1, MailTyped
  <2>. QED BY <1>2, <1>8, <2>1, <2>2 DEF MayResult
<1>. QED BY <1>2, <1>3, <1>4, <1>5, <1>6, <1>7, <1>8, SameAdvances

\* The result for a peer that has been removed.
LEMMA ResultLost ==
    ASSUME LoginsInv, NEW q, Resulting(q), UNCHANGED <<in, login, logon>>
    PROVE  LoginsInv'
<1>1. /\ LoginsTypeOK /\ CoreTypes /\ DatabaseTypes /\ MailTypes /\ Order /\ Located
  BY DEF LoginsInv, SessionInv, LoginsTypeOK
<1>2. /\ sql' \in Seq(Queries) /\ SqlOrder' /\ Asked = {q} \cup Asked' /\ q.op \in {"LOGIN", "PLAYER"}
      /\ \A c \in Cores : Sent(c)' = Sent(c)
      /\ ToDB' = ToDB /\ OutOrder' /\ HalfOrder' /\ Mail = {q} \cup ToDB \cup ToCores \cup Asked'
      /\ SameConns /\ Advances /\ SameData /\ SameHalf /\ OrderlyStep /\ key <= key'
  BY ResultFacts
<1>3. UNCHANGED <<conn, name, up, peers, out, kicks, key, cache, row, leaving, made, dropped, overtaken, budget>>
  BY DEF Resulting
<1>4. LoginsTypeOK' /\ Order' /\ ToCores' = ToCores /\ \A c \in Cores : Coming(c)' = Coming(c)
  BY <1>1, <1>2, <1>3 DEF LoginsTypeOK, CoreTypes, DatabaseTypes, MailTypes, Order, InOrder, ToCores, Coming
<1>5. Mail' = ToDB \cup ToCores \cup Asked'
  <2>1. Mail' = ToDB' \cup ToCores' \cup Asked'
    BY Zenon DEF Mail
  <2>. QED BY <1>2, <1>4, <2>1
<1>6. Located'
  <2>1. \A c \in Cores : (c \notin up' => in'[c] = <<>>) /\ (c \notin peers' => out'[c] = <<>>)
    BY <1>1, <1>3 DEF Located
  <2>. QED BY <1>2, <1>4, <2>1, LocatedStep
<1>7. StillMail
  BY <1>2, <1>5 DEF StillMail, IsSave
<1>8. SameLogon
  BY <1>3 DEF SameLogon
<1>. QED BY <1>2, <1>4, <1>5, <1>6, <1>7, <1>8, PlainStep

\* The result is told.
LEMMA ResultTold ==
    ASSUME LoginsInv, NEW q, Resulting(q), NEW n \in Answers, n.conn = q.conn, Tell(q.core, n),
           Plain(n) \/ (q.op = "LOGIN" /\ Asking(n)),
           login' \in [Keys -> LoginRecords], logon' \in 0 .. key
    PROVE  LoginsTypeOK' /\ Located' /\ Order' /\ StillMail /\ \A m \in Mail' : m \in Mail \/ m = n
<1> DEFINE c == q.core
<1>1. /\ LoginsTypeOK /\ CoreTypes /\ DatabaseTypes /\ MailTypes /\ Order /\ Located /\ SoloInv
  BY DEF LoginsInv, SessionInv, LoginsTypeOK
<1>2. /\ sql' \in Seq(Queries) /\ SqlOrder' /\ Asked = {q} \cup Asked' /\ q.op \in {"LOGIN", "PLAYER"}
      /\ q \in Mail /\ q.conn \in Conns /\ Home(q.conn) = c /\ c \in Cores
      /\ \A d \in Cores : Sent(d)' = Sent(d)
      /\ ToDB' = ToDB /\ OutOrder' /\ HalfOrder' /\ Mail = {q} \cup ToDB \cup ToCores \cup Asked'
      /\ SameConns /\ Advances
      /\ \A w \in ToDB \cup ToCores \cup Asked' : w \in Mail /\ (q.op = "LOGIN" => w.conn # q.conn)
  BY ResultFacts
<1>3. UNCHANGED <<conn, name, up, peers, out, kicks, key, cache, row, leaving, made, dropped, overtaken, budget>>
  BY DEF Resulting
<1>4. q.op = "LOGIN" \/ n.op \notin Solo
  BY DEF Plain, Solo
<1>5. \A w \in Coming(c) : MayAnswer(w, n)
  <2>1. \A w \in Coming(c) : w \in ToCores
    BY <1>2, MailIs
  <2>. QED BY <1>2, <1>4, <2>1 DEF MayAnswer, Solo
<1>6. /\ in' \in [Cores -> Seq(Answers)] /\ InOrder'
      /\ \A d \in Cores : Coming(d)' = IF d = c /\ c \in up THEN Coming(d) \cup {n} ELSE Coming(d)
      /\ ToCores' = IF c \in up THEN ToCores \cup {n} ELSE ToCores
      /\ \A d \in Cores \ up : in'[d] = in[d]
  BY <1>1, <1>2, <1>5, TellIs DEF Order
<1>7. (\A m \in Mail' : m = n \/ m \in ToDB \cup ToCores \cup Asked') /\ ToDB \cup ToCores \cup Asked' \subseteq Mail'
  <2>1. Mail' = ToDB' \cup ToCores' \cup Asked'
    BY Zenon DEF Mail
  <2>. QED BY <1>2, <1>6, <2>1
<1>8. LoginsTypeOK' /\ Order'
  BY <1>1, <1>2, <1>3, <1>6 DEF LoginsTypeOK, CoreTypes, DatabaseTypes, MailTypes, Order
<1>9. Located'
  <2>1. \A d \in Cores : (d \notin up' => in'[d] = <<>>) /\ (d \notin peers' => out'[d] = <<>>)
    BY <1>1, <1>3, <1>6 DEF Located
  <2>2. \A d \in Cores : \A m \in Coming(d)' : m \in Coming(d) \/ Home(m.conn)' = d
    BY <1>2, <1>6, SameView
  <2>. QED BY <1>2, <2>1, <2>2, LocatedStep
<1>10. StillMail
  <2>1. Alone(n)
    <3>1. SUFFICES ASSUME NEW w \in Mail', w.conn = n.conn, w # n PROVE w.op \notin Solo /\ n.op \notin Solo
      BY DEF Alone
    <3>2. w \in ToDB \cup ToCores \cup Asked'
      BY <1>7, <3>1
    <3>3. q.op = "PLAYER" /\ w \in Mail /\ n.op \notin Solo
      BY <1>2, <1>4, <3>1, <3>2
    <3>. QED BY <1>1, <1>2, <3>1, <3>3 DEF SoloInv, Solo
  <2>2. \A m \in Mail : IsSave(m) => m \in Mail'
    BY <1>2, <1>7 DEF IsSave
  <2>3. \A m \in Mail' : m \in Mail \/ m = n
    BY <1>2, <1>7
  <2>. QED BY <2>1, <2>2, <2>3 DEF StillMail
<1>11. \A m \in Mail' : m \in Mail \/ m = n
  BY <1>2, <1>7
<1>. QED BY <1>8, <1>9, <1>10, <1>11

\* The result says nothing of a session.
LEMMA ResultKeeps ==
    ASSUME LoginsInv, NEW q, Resulting(q), NEW n \in Answers, n.conn = q.conn, Tell(q.core, n), Plain(n),
           login' \in [Keys -> LoginRecords], \A k \in Keys : login'[k].handle = login[k].handle, logon' = logon
    PROVE  LoginsInv'
<1>1. DatabaseTypes
  BY DEF LoginsInv, SessionInv, LoginsTypeOK
<1>2. LoginsTypeOK' /\ Located' /\ Order' /\ StillMail /\ \A m \in Mail' : m \in Mail \/ m = n
  BY <1>1, ResultTold DEF DatabaseTypes
<1>3. SameConns /\ SameData /\ SameHalf /\ OrderlyStep /\ key <= key'
  BY ResultFacts
<1>4. SameLogon
  BY <1>1, KeyIs DEF SameLogon, Resulting
<1>5. n.op # "LOGIN_SUCCESS"
  BY DEF Plain
<1>. QED BY <1>2, <1>3, <1>4, <1>5, PlainStep

LEMMA LoginIs ==
    ASSUME login \in [Keys -> LoginRecords], NEW k \in Keys, NEW r \in LoginRecords, login' = [login EXCEPT ![k] = r]
    PROVE  login' \in [Keys -> LoginRecords] /\ login'[k] = r /\ \A j \in Keys : j # k => login'[j] = login[j]
OBVIOUS

\* The account logs on: its session is one more, and has the logon.
LEMMA LogonKeeps ==
    ASSUME LoginsInv, NEW q, Resulting(q), q.op = "LOGIN", logon = 0, logon' = key,
           login' = [login EXCEPT ![key].handle = q.core, ![key].players = TRUE],
           Tell(q.core, Msg("LOGIN_SUCCESS", q.conn, 0, {}))
    PROVE  LoginsInv'
<1> DEFINE h == q.conn
<1>1. CoreTypes /\ DatabaseTypes /\ MailTypes /\ ConnInv /\ SoloInv /\ CountInv
  BY DEF LoginsInv, SessionInv, LoginsTypeOK
<1>2. /\ q \in Mail /\ h \in Conns /\ Used(h) /\ Home(h) = q.core /\ q.core \in Cores
      /\ SameConns /\ SameData /\ SameHalf /\ OrderlyStep /\ key <= key'
  BY ResultFacts
<1>3. PICK n : n = Msg("LOGIN_SUCCESS", q.conn, 0, {})
  OBVIOUS
<1>4. n \in Answers /\ n.conn = h /\ n.op = "LOGIN_SUCCESS" /\ Tell(q.core, n)
  BY <1>2, <1>3 DEF Msg, Answers
<1>5. Asking(n)
  BY <1>1, <1>2, <1>4 DEF Asking, SoloInv, Solo
<1>6. key \in Keys /\ key # 0
  <2>1. conn[h].key \in 1 .. key
    BY <1>1, <1>2 DEF ConnInv
  <2>. QED BY <1>1, <2>1, KeyIs
<1>7. login' \in [Keys -> LoginRecords] /\ login'[key].handle = q.core
  <2> DEFINE r == [login[key] EXCEPT !.handle = q.core, !.players = TRUE]
  <2>1. login \in [Keys -> LoginRecords] /\ login[key] \in LoginRecords
    BY <1>1, <1>6 DEF DatabaseTypes
  <2>2. r \in LoginRecords /\ r.handle = q.core /\ login' = [login EXCEPT ![key] = r]
    BY <1>2, <2>1 DEF LoginRecords
  <2> HIDE DEF r
  <2>. QED BY <1>6, <2>1, <2>2, LoginIs
<1>8. logon' \in 0 .. key
  BY <1>1, KeyIs
<1>9. LoginsTypeOK' /\ Located' /\ Order' /\ StillMail /\ \A m \in Mail' : m \in Mail \/ m = n
  BY <1>4, <1>5, <1>7, <1>8, ResultTold
<1>10. Orderly' => HalfInv'
  BY <1>2, <1>9, HalfKeeps
<1>11. \A g \in Conns : Unfinished(g)' => Unfinished(g) \/ g = h
  <2>1. SUFFICES ASSUME NEW g \in Conns, Unfinished(g)' PROVE Unfinished(g) \/ g = h
    OBVIOUS
  <2>2. MailTypes'
    BY <1>9 DEF LoginsTypeOK
  <2>3. Bound(g)' \/ \E m \in Mail' : m.conn = g /\ Claims(m)
    BY <2>1, <2>2, UnfinishedNext DEF UnfinishedMeans
  <2>. QED BY <1>2, <1>4, <1>9, <2>3, BoundIs, SameView
<1>12. HasLogon(h)'
  BY <1>2, <1>6, <1>7, SameView DEF HasLogon, Resulting
<1>13. CountInv'
  <2>1. dropped' = dropped /\ dropped \in Nat
    BY <1>1 DEF Resulting, DatabaseTypes
  <2>2. Claimants' \subseteq Claimants \cup {h} /\ Strangers' \subseteq Claimants /\ Claimants \subseteq Conns /\ Claimants \cup {h} \in SUBSET Conns
    BY <1>2, <1>11, <1>12 DEF Claimants, Strangers
  <2>3. /\ Cardinality(Claimants') <= Cardinality(Claimants \cup {h}) /\ Cardinality(Claimants \cup {h}) <= Cardinality(Claimants) + 1
        /\ Cardinality(Strangers') <= Cardinality(Claimants)
    BY <1>2, <2>2, ClaimantsAre
  <2>4. Cardinality(Claimants) \in Nat /\ Cardinality(Claimants') \in Nat /\ Cardinality(Strangers') \in Nat /\ Cardinality(Claimants \cup {h}) \in Nat
    <3>1. Claimants' \in SUBSET Conns /\ Strangers' \in SUBSET Conns
      BY <2>2
    <3>. QED BY <2>2, <3>1, ClaimantsAre
  <2>5. Cardinality(Claimants) <= dropped
    BY <1>1, <2>1, <2>4 DEF CountInv
  <2>6. Cardinality(Claimants') <= dropped' + 1 /\ Cardinality(Strangers') <= dropped'
    BY <2>1, <2>3, <2>4, <2>5
  <2>7. (IF logon' = 0 THEN 0 ELSE 1) = 1
    BY <1>6
  <2>. QED BY <2>6, <2>7 DEF CountInv
<1>. QED BY <1>2, <1>9, <1>10, <1>13, StillStep

LEMMA AnalyzeQueryResultKeeps == ASSUME LoginsInv, AnalyzeQueryResult PROVE LoginsInv'
<1>1. PICK q : q = Head(sql)
  OBVIOUS
<1>2. Resulting(q)
  BY <1>1 DEF AnalyzeQueryResult, Resulting
<1>3. DatabaseTypes /\ MailInv /\ MailTypes
  BY DEF LoginsInv, SessionInv, LoginsTypeOK
<1>4. q \in Queries /\ q \in Mail /\ q.conn \in Conns /\ Used(q.conn) /\ Timely(q) /\ OrderlyStep /\ q.char \subseteq Changes
      /\ \A c \in Cores : HalfRead(c)' <=> HalfRead(c)
  BY <1>2, <1>3, ResultFacts, MailTyped
<1>5. CASE UNCHANGED <<in, login, logon>>
  BY <1>2, <1>5, ResultLost
<1>6. CASE q.op = "LOGIN" /\ RESULT_LOGIN(q.core, q.conn)
  <2>1. CASE Taken
    <3>1. PICK n : n = Msg("LOGIN_ALREADY", q.conn, 0, {})
      OBVIOUS
    <3>2. Tell(q.core, n) /\ login' = login /\ logon' = logon
      BY <1>6, <2>1, <3>1 DEF RESULT_LOGIN
    <3>3. n \in Answers /\ n.conn = q.conn /\ n.op = "LOGIN_ALREADY"
      BY <1>4, <3>1 DEF Msg, Answers
    <3>4. Plain(n)
      BY <1>4, <3>3 DEF Plain, Late, IsLoad
    <3>5. login' \in [Keys -> LoginRecords] /\ \A k \in Keys : login'[k].handle = login[k].handle
      BY <1>3, <3>2 DEF DatabaseTypes
    <3>. QED BY <1>2, <3>2, <3>3, <3>4, <3>5, ResultKeeps
  <2>2. CASE ~Taken
    BY <1>2, <1>6, <2>2, LogonKeeps DEF RESULT_LOGIN, Taken
  <2>. QED BY <2>1, <2>2
<1>7. CASE q.op = "PLAYER" /\ RESULT_PLAYER_LOAD(q.core, q.conn, q.char)
  <2>1. logon' = logon /\ conn[q.conn].phase # "login"
    BY <1>4, <1>7 DEF RESULT_PLAYER_LOAD, Timely, Late
  <2>2. CASE LoadFails(q.core, q.conn)
    <3>1. PICK n : n = Msg("PLAYER_LOAD_FAILED", q.conn, 0, {})
      OBVIOUS
    <3>2. Tell(q.core, n) /\ login' = login
      BY <2>2, <3>1 DEF LoadFails
    <3>3. n \in Answers /\ n.conn = q.conn /\ n.op = "PLAYER_LOAD_FAILED"
      BY <1>4, <3>1 DEF Msg, Answers
    <3>4. Plain(n)
      BY <1>4, <3>3 DEF Plain, Late, IsLoad
    <3>5. login' \in [Keys -> LoginRecords] /\ \A k \in Keys : login'[k].handle = login[k].handle
      BY <1>3, <3>2 DEF DatabaseTypes
    <3>. QED BY <1>2, <2>1, <3>2, <3>3, <3>4, <3>5, ResultKeeps
  <2>3. CASE LoadSucceeds(q.core, q.conn, q.char)
    <3>1. PICK n : n = Msg("PLAYER_LOAD_SUCCESS", q.conn, 0, q.char)
      OBVIOUS
    <3>2. Tell(q.core, n) /\ login' = [login EXCEPT ![key].play = TRUE]
      BY <2>3, <3>1 DEF LoadSucceeds
    <3>3. n \in Answers /\ n.conn = q.conn /\ n.op = "PLAYER_LOAD_SUCCESS" /\ n.char = q.char
      BY <1>4, <3>1 DEF Msg, Answers
    <3>4. ASSUME Orderly', conn[q.conn].phase = "select"
          PROVE  (Saved \cup made) \subseteq n.char /\ \A c \in Cores : ~HalfRead(c)'
      <4>1. LoadInv /\ HalfInv
        BY <1>4, <3>4 DEF OrderlyStep, LoginsInv, CharInv
      <4>. QED BY <1>4, <1>7, <3>3, <3>4, <4>1 DEF LoadInv, HalfInv, IsLoad
    <3>5. Plain(n)
      BY <1>4, <2>1, <3>3, <3>4 DEF Plain
    <3>6. login' \in [Keys -> LoginRecords] /\ \A k \in Keys : login'[k].handle = login[k].handle
      BY <1>3, <3>2 DEF DatabaseTypes, LoginRecords
    <3>. QED BY <1>2, <2>1, <3>2, <3>3, <3>5, <3>6, ResultKeeps
  <2>. QED BY <1>7, <2>2, <2>3 DEF RESULT_PLAYER_LOAD
<1>. QED BY <1>1, <1>5, <1>6, <1>7 DEF AnalyzeQueryResult

\* The DB process notices that a core is lost: nothing is under way from it or to it.
LEMMA RemovePeerKeeps == ASSUME LoginsInv, NEW c \in Cores, RemovePeer(c) PROVE LoginsInv'
<1>1. /\ LoginsTypeOK /\ CoreTypes /\ DatabaseTypes /\ MailTypes /\ Order /\ Located /\ ConnInv
  BY DEF LoginsInv, SessionInv, LoginsTypeOK
<1>2. /\ c \notin up /\ out[c] = <<>> /\ peers' = peers \ {c} /\ DeleteLogonAccount(c)
      /\ UNCHANGED <<conn, name, up, out, in, kicks, key, sql, cache, row, leaving, made, dropped, overtaken, budget>>
  BY DEF RemovePeer
<1>3. /\ login' \in [Keys -> LoginRecords] /\ \A k \in Keys : login'[k].handle = login[k].handle
      /\ logon' = IF logon # 0 /\ login[logon].handle = c THEN 0 ELSE logon
  BY <1>1, <1>2, DeleteIs
<1>4. /\ Mail' = Mail /\ SameHalf /\ Order' /\ MailTypes'
      /\ \A d \in Cores : Sent(d)' = Sent(d) /\ Coming(d)' = Coming(d)
      /\ Asked' = Asked
  BY <1>1, <1>2, SameMailIs
<1>5. LoginsTypeOK'
  <2>1. logon' \in 0 .. key'
    BY <1>1, <1>2, <1>3, KeyIs DEF DatabaseTypes
  <2>. QED BY <1>1, <1>2, <1>3, <1>4, <2>1 DEF LoginsTypeOK, CoreTypes, DatabaseTypes
<1>6. SameConns /\ SameData /\ key <= key' /\ OrderlyStep /\ StillMail
  BY <1>1, <1>2, <1>4, KeyIs, SameOrderly DEF SameConns, SameData, Saved, StillMail
<1>7. Located'
  BY <1>1, <1>2, <1>4 DEF Located, Home
<1>8. Orderly' => HalfInv'
  BY <1>4, <1>6, HalfKeeps
<1>9. Sent(c) = {} /\ Coming(c) = {}
  <2>1. in[c] = <<>> /\ out[c] = <<>>
    BY <1>1, <1>2 DEF Located
  <2>. QED BY <2>1, QueueOfNone DEF Sent, Coming
<1>10. ASSUME NEW h \in Conns, Unfinished(h), Home(h) = c PROVE FALSE
  <2>1. ~Bound(h)
    BY <1>1, <1>2, <1>10, BoundIs DEF ConnInv
  <2>2. PICK m \in Mail : m.conn = h /\ Claims(m)
    BY <1>1, <1>10, <2>1, UnfinishedIs DEF UnfinishedMeans
  <2>3. m \in ToDB \/ m \in ToCores
    BY <1>1, <2>2, MailIs, MailTyped DEF Claims, IsSave
  <2>4. PICK d \in Cores : m \in Sent(d) \/ m \in Coming(d)
    BY <2>3, MailIs
  <2>5. d = c
    BY <1>1, <1>10, <2>2, <2>4 DEF Located
  <2>. QED BY <1>9, <2>4, <2>5
<1>11. \A h \in Conns : Unfinished(h)' => Unfinished(h) /\ Home(h)' = Home(h)
  BY <1>4, <1>5, <1>6, ClaimsLeft
<1>12. CountInv'
  <2>1. CASE logon # 0 /\ login[logon].handle = c
    <3>1. \A h \in Conns : Unfinished(h)' => Unfinished(h) /\ ~HasLogon(h)
      BY <1>10, <1>11, <2>1 DEF HasLogon
    <3>. QED BY <1>2, <1>3, <2>1, <3>1, CountEnds
  <2>2. CASE ~(logon # 0 /\ login[logon].handle = c)
    <3>1. logon' = logon /\ (logon # 0 => login'[logon].handle = login[logon].handle)
      BY <1>1, <1>3, <2>2, KeyIs
    <3>. QED BY <1>2, <1>11, <3>1, CountKeeps
  <2>. QED BY <2>1, <2>2
<1>. QED BY <1>5, <1>4, <1>6, <1>7, <1>8, <1>12, StillStep

-----------------------------------------------------------------------------
\* A core is lost.

LEMMA CrashConn ==
    ASSUME CoreTypes, ConnInv, NEW c \in Cores, NEW h \in Conns, conn' = [g \in Conns |-> IF conn[g].core = c /\ Open(g) THEN Gone(g) ELSE conn[g]]
    PROVE  /\ conn'[h] \in ConnRecords /\ conn'[h].core = conn[h].core /\ conn'[h].key = conn[h].key
           /\ Home(h) # c => conn'[h] = conn[h]
           /\ Home(h) = c => conn'[h].char = {} /\ conn'[h].phase = IF Open(h) THEN "gone" ELSE conn[h].phase
<1>1. conn[h] \in ConnRecords
  BY DEF CoreTypes
<1>2. CASE conn[h].core = c /\ Open(h)
  <2>1. conn'[h] = Gone(h)
    BY <1>2
  <2>2. Gone(h) \in ConnRecords /\ Gone(h).core = conn[h].core /\ Gone(h).key = conn[h].key /\ Gone(h).phase = "gone" /\ Gone(h).char = {}
    BY <1>1 DEF Gone, ConnRecords, Phases
  <2>. QED BY <1>2, <2>1, <2>2 DEF Home
<1>3. CASE ~(conn[h].core = c /\ Open(h))
  <2>1. conn'[h] = conn[h]
    BY <1>3
  <2>2. Home(h) = c => ~Open(h) /\ ~Playing(h)
    BY <1>3 DEF Home, Open, Playing
  <2>. QED BY <1>1, <2>1, <2>2 DEF ConnInv
<1>. QED BY <1>2, <1>3

LEMMA CrashKeeps == ASSUME LoginsInv, NEW c \in Cores, Crash(c) PROVE LoginsInv'
<1>1. /\ LoginsTypeOK /\ CoreTypes /\ DatabaseTypes /\ MailTypes /\ Order /\ Located /\ ConnInv
  BY DEF LoginsInv, SessionInv, LoginsTypeOK
<1>2. /\ up' = up \ {c} /\ kicks' = kicks \ {c} /\ budget' \in [Kinds -> Nat]
      /\ conn' = [g \in Conns |-> IF conn[g].core = c /\ Open(g) THEN Gone(g) ELSE conn[g]]
      /\ name' = [name EXCEPT ![c] = 0] /\ in' = [in EXCEPT ![c] = <<>>]
      /\ UNCHANGED <<peers, out, key, login, logon, sql, cache, row, leaving, dropped, overtaken>>
  BY <1>1, SpendIs DEF Crash, DatabaseTypes, Kinds, database
<1>3. \A g \in Conns : /\ conn'[g] \in ConnRecords /\ conn'[g].core = conn[g].core /\ conn'[g].key = conn[g].key
                       /\ Home(g) # c => conn'[g] = conn[g]
                       /\ Home(g) = c => conn'[g].char = {} /\ conn'[g].phase = IF Open(g) THEN "gone" ELSE conn[g].phase
  BY <1>1, <1>2, CrashConn
<1>4. conn' \in [Conns -> ConnRecords]
  BY <1>2, <1>3
<1>5. \A g \in Conns : /\ Used(g)' <=> Used(g)
                       /\ Home(g)' = Home(g)
                       /\ Playing(g)' <=> Playing(g) /\ Home(g) # c
                       /\ Bound(g)' <=> Bound(g) /\ Home(g) # c
                       /\ Open(g)' <=> Open(g) /\ Home(g) # c
                       /\ conn[g].phase = "gone" => conn'[g].phase = "gone"
                       /\ conn'[g].phase \in {"login", "select"} => conn'[g].phase = conn[g].phase
  <2>1. SUFFICES ASSUME NEW g \in Conns
                 PROVE  /\ Used(g)' <=> Used(g)
                        /\ Home(g)' = Home(g)
                        /\ Playing(g)' <=> Playing(g) /\ Home(g) # c
                        /\ Bound(g)' <=> Bound(g) /\ Home(g) # c
                        /\ Open(g)' <=> Open(g) /\ Home(g) # c
                        /\ conn[g].phase = "gone" => conn'[g].phase = "gone"
                        /\ conn'[g].phase \in {"login", "select"} => conn'[g].phase = conn[g].phase
    BY Zenon
  <2>2. Home(g)' = Home(g)
    BY <1>3 DEF Home
  <2>3. CASE Home(g) # c
    <3>1. conn'[g] = conn[g]
      BY <1>3, <2>3
    <3>. QED BY <2>2, <2>3, <3>1 DEF Used, Playing, Bound, Open
  <2>4. CASE Home(g) = c /\ Open(g)
    <3>1. conn'[g].phase = "gone"
      BY <1>3, <2>4
    <3>. QED BY <2>2, <2>4, <3>1 DEF Used, Playing, Bound, Open
  <2>5. CASE Home(g) = c /\ ~Open(g)
    <3>1. conn'[g].phase = conn[g].phase
      BY <1>3, <2>5
    <3>. QED BY <2>2, <2>5, <3>1 DEF Used, Playing, Bound, Open
  <2>. QED BY <2>3, <2>4, <2>5
<1>6. in' \in [Cores -> Seq(Answers)] /\ in'[c] = <<>> /\ \A d \in Cores : d # c => in'[d] = in[d]
  BY <1>1, <1>2 DEF MailTypes
<1>7. Coming(c)' = {} /\ \A d \in Cores : d # c => Coming(d)' = Coming(d)
  BY <1>6, QueueOfNone DEF Coming
<1>8. InOrder'
  <2>1. Before(in'[c]) = {}
    BY <1>6, QueueOfNone
  <2>. QED BY <1>1, <1>6, <2>1 DEF Order, InOrder
<1>9. ToCores' \subseteq ToCores
  <2>1. \A m : m \in ToCores' <=> \E d \in Cores : m \in Coming(d)'
    BY Zenon DEF ToCores
  <2>. QED BY <1>7, <2>1, MailIs
<1>10. /\ ToDB' = ToDB /\ Asked' = Asked /\ SameHalf /\ Saved' = Saved /\ OutOrder' /\ HalfOrder' /\ SqlOrder'
       /\ \A d \in Cores : Sent(d)' = Sent(d)
  BY <1>1, <1>2, Zenon DEF ToDB, Asked, SameHalf, HalfRead, Saved, Order, OutOrder, HalfOrder, SqlOrder, Sent
<1>11. /\ Mail' \subseteq Mail /\ ToDB \subseteq Mail'
       /\ \A m \in Mail : m.conn \in Conns /\ (IsSave(m) => m \in Mail')
  <2>1. Mail = ToDB \cup ToCores \cup Asked /\ Mail' = ToDB' \cup ToCores' \cup Asked'
    BY Zenon DEF Mail
  <2>. QED BY <1>1, <1>9, <1>10, <2>1, MailTyped DEF IsSave
<1>12. made' \subseteq made
  BY DEF Crash
<1>13. LoginsTypeOK' /\ Order'
  <2>1. name' \in [Cores -> 0 .. NumConns]
    <3>1. 0 \in 0 .. NumConns /\ name \in [Cores -> 0 .. NumConns]
      BY <1>1, LoginAssumption DEF CoreTypes
    <3>. QED BY <1>2, <3>1
  <2>2. CoreTypes'
    BY <1>1, <1>2, <1>4, <2>1 DEF CoreTypes
  <2>3. DatabaseTypes'
    BY <1>1, <1>2, <1>12 DEF DatabaseTypes
  <2>4. MailTypes'
    BY <1>1, <1>2, <1>6 DEF MailTypes
  <2>. QED BY <1>8, <1>10, <2>2, <2>3, <2>4 DEF LoginsTypeOK, Order
<1>14. ConnInv'
  <2>1. ASSUME NEW d \in Cores, name'[d] # 0 PROVE Bound(name[d])' /\ Home(name[d])' = d
    <3>1. name'[d] = name[d] /\ d # c
      BY <1>1, <1>2, <2>1 DEF CoreTypes
    <3>2. name[d] \in Conns /\ Bound(name[d]) /\ Home(name[d]) = d
      BY <1>1, <2>1, <3>1 DEF ConnInv, CoreTypes, Conns
    <3>3. conn'[name[d]] = conn[name[d]]
      BY <1>3, <3>1, <3>2
    <3>. QED BY <3>1, <3>2, <3>3 DEF Bound, Home
  <2>2. \A g \in Conns : /\ Used(g)' => Home(g)' \in Cores /\ conn'[g].key \in 1 .. key'
                         /\ ~Playing(g)' => conn'[g].char = {}
                         /\ Open(g)' => Home(g)' \in up'
    BY <1>1, <1>2, <1>3, <1>5 DEF ConnInv
  <2>. QED BY <2>1, <2>2 DEF ConnInv
<1>15. Advances
  <2>1. \A g \in Conns : Playing(g)' => Playing(g) /\ conn'[g].char = conn[g].char
    BY <1>3, <1>5
  <2>. QED BY <1>5, <2>1 DEF Advances
<1>16. Located'
  <2>1. \A d \in Cores : (d \notin up' => in'[d] = <<>>) /\ (d \notin peers' => out'[d] = <<>>)
    BY <1>1, <1>2, <1>6 DEF Located
  <2>2. \A d \in Cores : \A m \in Coming(d)' : m \in Coming(d)
    BY <1>7
  <2>. QED BY <1>10, <1>15, <2>1, <2>2, LocatedStep
<1>17. Fits
  BY <1>5, <1>11 DEF Fits
<1>18. CountInv'
  <2>1. \A h \in Conns : Bound(h)' => Unfinished(h)
    BY <1>5, BoundIs
  <2>. QED BY <1>2, <1>11, <1>13, <1>15, <2>1, CountStep
<1>19. ASSUME Orderly' PROVE CharInv'
  <2>1. Orderly
    BY <1>2, <1>19 DEF Orderly
  <2>2. HeldInv'
    <3>1. SUFFICES ASSUME NEW e \in made' PROVE Kept(e)'
      BY DEF HeldInv
    <3>2. e \in Saved \/ e \in CharsOff(c) \/ e \in UNION UNION {Saves(d) : d \in Cores}
      BY <3>1 DEF Crash
    <3>3. CASE e \in Saved
      BY <1>10, <3>3 DEF Kept
    <3>4. CASE e \in CharsOff(c)
      <4>1. PICK h \in Conns : conn[h].core # c /\ e \in conn[h].char
        BY <3>4 DEF CharsOff
      <4>2. conn'[h] = conn[h]
        BY <1>3, <4>1 DEF Home
      <4>. QED BY <4>1, <4>2 DEF Kept
    <3>5. CASE e \in UNION UNION {Saves(d) : d \in Cores}
      <4>1. PICK d \in Cores : \E S \in Saves(d) : e \in S
        BY <3>5
      <4>2. PICK n \in DOMAIN out[d] : out[d][n].op = "PLAYER_SAVE" /\ e \in out[d][n].char
        BY <4>1 DEF Saves
      <4>3. out[d][n] \in Sent(d)
        BY <4>2 DEF Sent, Range
      <4>4. out[d][n] \in Mail'
        BY <1>11, <4>3, MailIs
      <4>. QED BY <4>2, <4>4 DEF Kept, IsSave
    <3>. QED BY <3>2, <3>3, <3>4, <3>5
  <2>3. \A h \in Conns : Playing(h)' => Playing(h)
    BY <1>5
  <2>4. \A m \in Mail' : m \in Mail
    BY <1>11
  <2>5. \A d \in Cores : HalfRead(d)' => HalfRead(d)
    BY <1>10 DEF SameHalf
  <2>. QED BY <1>10, <1>12, <1>15, <2>1, <2>2, <2>3, <2>4, <2>5, CharStep
<1>. QED BY <1>13, <1>14, <1>15, <1>16, <1>17, <1>18, <1>19, StepKeeps

-----------------------------------------------------------------------------

LEMMA InitHas == ASSUME Init PROVE LoginsInv
<1>1. /\ conn = [h \in Conns |-> Unused] /\ name = [c \in Cores |-> 0] /\ up = Cores /\ peers = Cores
      /\ out = [c \in Cores |-> <<>>] /\ in = [c \in Cores |-> <<>>] /\ kicks = {}
      /\ key = 0 /\ login = [k \in Keys |-> NoLogin] /\ logon = 0 /\ sql = <<>>
      /\ cache = NoCache /\ row = {} /\ leaving = FALSE /\ made = {} /\ dropped = 0 /\ overtaken = FALSE /\ budget = Limit
  BY DEF Init
<1>2. Range(<<>>) = {} /\ Before(<<>>) = {}
  BY QueueOfNone
<1>3. (\A c \in Cores : Sent(c) = {} /\ Coming(c) = {}) /\ Asked = {}
  BY <1>1, <1>2 DEF Sent, Coming, Asked
<1>4. Mail = {} /\ ToDB = {}
  BY <1>3, MailIs
<1>5. Unused \in ConnRecords /\ NoLogin \in LoginRecords
  BY DEF Unused, NoLogin, ConnRecords, LoginRecords, Phases
<1>6. LoginsTypeOK
  <2>1. CoreTypes
    <3>1. 0 \in 0 .. NumConns
      BY LoginAssumption
    <3>2. conn \in [Conns -> ConnRecords] /\ name \in [Cores -> 0 .. NumConns]
      BY <1>1, <1>5, <3>1
    <3>3. up \subseteq peers /\ peers \subseteq Cores /\ kicks \subseteq Cores
      BY <1>1
    <3>. QED BY <3>2, <3>3 DEF CoreTypes
  <2>2. DatabaseTypes
    <3>1. key \in 0 .. NumKeys /\ logon \in 0 .. key
      BY <1>1, LoginAssumption
    <3>2. login \in [Keys -> LoginRecords] /\ budget \in [Kinds -> Nat]
      BY <1>1, <1>5, LoginAssumption
    <3>3. cache \in (SUBSET Changes) \cup {NoCache} /\ row \subseteq Changes /\ leaving \in BOOLEAN /\ made \subseteq Changes
          /\ dropped \in Nat /\ overtaken \in BOOLEAN
      BY <1>1
    <3>. QED BY <3>1, <3>2, <3>3 DEF DatabaseTypes
  <2>3. MailTypes
    BY <1>1 DEF MailTypes
  <2>. QED BY <2>1, <2>2, <2>3 DEF LoginsTypeOK
<1>7. \A h \in Conns : conn[h] = Unused /\ ~Used(h) /\ ~Bound(h) /\ ~Playing(h) /\ ~Open(h) /\ conn[h].char = {}
  BY <1>1 DEF Unused, Used, Bound, Playing, Open
<1>8. ConnInv /\ Located /\ MailInv
  BY <1>1, <1>3, <1>4, <1>7 DEF ConnInv, Located, MailInv
<1>9. Order
  BY <1>1, <1>2 DEF Order, OutOrder, InOrder, SqlOrder, HalfOrder
<1>10. SoloInv /\ LoadInv
  BY <1>4 DEF SoloInv, LoadInv
<1>11. CountInv
  <2>1. \A h \in Conns : ~Unfinished(h)
    BY <1>4, <1>6, <1>7, UnfinishedIs DEF UnfinishedMeans, LoginsTypeOK
  <2>2. Claimants = {} /\ Strangers = {}
    BY <2>1 DEF Claimants, Strangers
  <2>3. Cardinality({}) = 0
    BY FS_EmptySet
  <2>. QED BY <1>1, <2>2, <2>3 DEF CountInv
<1>12. HalfInv
  BY <1>1 DEF HalfInv, HalfRead
<1>13. ChainInv /\ HeldInv
  BY <1>1, <1>4, <1>7 DEF ChainInv, HeldInv
<1>. QED BY <1>6, <1>8, <1>9, <1>10, <1>11, <1>12, <1>13 DEF LoginsInv, SessionInv, CharInv

LEMMA NextKeeps == ASSUME LoginsInv, [Next]_vars PROVE LoginsInv' /\ (Orderly' => Saved \subseteq Saved')
<1>1. CASE QUERY_AUTH_LOGIN
  BY <1>1, QUERY_AUTH_LOGINKeeps DEF QUERY_AUTH_LOGIN, Saved
<1>2. CASE AnalyzeQueryResult
  BY <1>2, AnalyzeQueryResultKeeps DEF AnalyzeQueryResult, Saved
<1>3. CASE UpdateLogoutPlayer
  BY <1>3, UpdateLogoutPlayerKeeps DEF UpdateLogoutPlayer, Written, Saved
<1>4. ASSUME NEW c \in Cores, ReadDB(c) PROVE LoginsInv' /\ (Orderly' => Saved \subseteq Saved')
  BY <1>4, ReadDBKeeps DEF ReadDB, database, Saved
<1>5. ASSUME NEW c \in Cores, ReadCore(c) PROVE LoginsInv' /\ (Orderly' => Saved \subseteq Saved')
  BY <1>5, ReadCoreKeeps
<1>6. ASSUME NEW c \in Cores, Kick(c) PROVE LoginsInv' /\ (Orderly' => Saved \subseteq Saved')
  BY <1>6, KickKeeps DEF Kick, database, Saved
<1>7. ASSUME NEW c \in Cores, Crash(c) PROVE LoginsInv' /\ (Orderly' => Saved \subseteq Saved')
  BY <1>7, CrashKeeps DEF Crash, database, Saved
<1>8. ASSUME NEW c \in Cores, RemovePeer(c) PROVE LoginsInv' /\ (Orderly' => Saved \subseteq Saved')
  BY <1>8, RemovePeerKeeps DEF RemovePeer, Saved
<1>9. ASSUME NEW h \in Conns, HangUp(h) PROVE LoginsInv' /\ (Orderly' => Saved \subseteq Saved')
  BY <1>9, HangUpKeeps DEF HangUp, database, Saved
<1>10. ASSUME NEW h \in Conns, CharacterSelect(h) PROVE LoginsInv' /\ (Orderly' => Saved \subseteq Saved')
  BY <1>10, CharacterSelectKeeps DEF CharacterSelect, database, Saved
<1>11. ASSUME NEW h \in Conns, SaveReal(h) PROVE LoginsInv' /\ (Orderly' => Saved \subseteq Saved')
  BY <1>11, SaveRealKeeps DEF SaveReal, database, Saved
<1>12. ASSUME NEW h \in Conns, Close(h) PROVE LoginsInv' /\ (Orderly' => Saved \subseteq Saved')
  BY <1>12, CloseKeeps DEF Close, database, Saved
<1>13. ASSUME NEW h \in Conns, ChangeChannel(h) PROVE LoginsInv' /\ (Orderly' => Saved \subseteq Saved')
  BY <1>13, ChangeChannelKeeps DEF ChangeChannel, database, Saved
<1>14. ASSUME NEW h \in Conns, NEW c \in Cores, NEW k \in Keys, LoginByKey(h, c, k) PROVE LoginsInv' /\ (Orderly' => Saved \subseteq Saved')
  BY <1>14, LoginByKeyKeeps DEF LoginByKey, database, Saved
<1>15. ASSUME NEW h \in Conns, NEW e \in Changes, Play(h, e) PROVE LoginsInv' /\ (Orderly' => Saved \subseteq Saved')
  BY <1>15, PlayKeeps DEF Play, database, Saved
<1>16. CASE UNCHANGED vars
  <2>1. UNCHANGED <<conn, name, up, peers, out, in, kicks, key, login, logon, sql, cache, row, leaving, made, dropped, overtaken, budget>>
    BY <1>16 DEF vars
  <2>2. CoreTypes /\ DatabaseTypes
    BY DEF LoginsInv, SessionInv, LoginsTypeOK
  <2>3. CoreTypes' /\ DatabaseTypes' /\ SameConns /\ SameLogon /\ SameData /\ key <= key'
    BY <2>1, <2>2, KeyIs DEF CoreTypes, DatabaseTypes, SameConns, SameLogon, SameData, Saved
  <2>. QED BY <2>1, <2>3, StillIs DEF SameData
<1>. QED BY <1>1, <1>2, <1>3, <1>4, <1>5, <1>6, <1>7, <1>8, <1>9, <1>10, <1>11, <1>12, <1>13, <1>14, <1>15, <1>16 DEF Next

LEMMA OneIsPlayed == ASSUME LoginsInv PROVE OneSession
<1> DEFINE S == {h \in Conns : Bound(h)}
<1>1. CountInv /\ dropped \in Nat
  BY DEF LoginsInv, SessionInv, LoginsTypeOK, DatabaseTypes
<1>2. S \subseteq Claimants /\ Claimants \subseteq Conns
  BY BoundIs DEF Claimants
<1>3. Cardinality(S) <= Cardinality(Claimants) /\ Cardinality(S) \in Nat /\ Cardinality(Claimants) \in Nat
  BY <1>2, ClaimantsAre
<1>4. Cardinality(Claimants) <= 1 + dropped
  BY <1>1, <1>3 DEF CountInv
<1> HIDE DEF S
<1>5. Cardinality(S) <= 1 + dropped
  BY <1>1, <1>3, <1>4
<1>. QED BY <1>5 DEF S, OneSession

LEMMA PlayedIsLatest == ASSUME LoginsInv PROVE PlaysLatest
<1>1. SUFFICES ASSUME Orderly, NEW h \in Conns, Playing(h), NEW e \in made PROVE e \in conn[h].char
  BY DEF PlaysLatest
<1>2. ConnInv /\ HalfInv /\ ChainInv /\ Kept(e)
  BY <1>1 DEF LoginsInv, SessionInv, CharInv, HeldInv
<1>3. CASE e \in Saved
  BY <1>1, <1>2, <1>3 DEF ChainInv
<1>4. CASE \E g \in Conns : e \in conn[g].char
  <2>1. PICK g \in Conns : e \in conn[g].char
    BY <1>4
  <2>2. Playing(g)
    BY <1>2, <2>1 DEF ConnInv
  <2>3. g = h
    BY <1>1, <2>2, BoundIs, OneClaim
  <2>. QED BY <2>1, <2>3
<1>5. CASE \E m \in Mail : IsSave(m) /\ e \in m.char
  <2>1. PICK m \in Mail : IsSave(m) /\ e \in m.char
    BY <1>5
  <2>2. \A c \in Cores : ~HalfRead(c)
    BY <1>1, <1>2 DEF HalfInv
  <2>3. m.conn = h
    BY <1>1, <2>1, <2>2, BoundIs, BoundSaves
  <2>. QED BY <1>1, <2>1, <2>3 DEF LoginsInv, SessionInv, MailInv, Timely
<1>. QED BY <1>2, <1>3, <1>4, <1>5 DEF Kept

-----------------------------------------------------------------------------
\* All of this for any number of cores, keys, connections and changes, with crashes of
\* cores, and without any assumption on how late the servers are.

\* The invariant the rest follows from: who has something of a session has the logon, or
\* had one that LOGIN_BY_KEY took; and as long as none was taken, and no load came
\* between the packets of a change of channel, the saves under way are a chain
\* (QUERY_LOGIN_BY_KEY, QUERY_LOGOUT, RESULT_LOGIN, DESC::Destroy, change_channel_event).
THEOREM LoginsInvariant == Spec => []LoginsInv
<1>1. Init => LoginsInv
  BY InitHas
<1>2. LoginsInv /\ [Next]_vars => LoginsInv'
  BY NextKeeps
<1>. QED BY <1>1, <1>2, PTL DEF Spec

\* One connection has the account's character, and one more for each logon that
\* LOGIN_BY_KEY took from a session that was not over (m_map_kLogonAccount).
THEOREM OneSessionAtATime == Spec => []OneSession
<1>1. LoginsInv => OneSession
  BY OneIsPlayed
<1>. QED BY <1>1, LoginsInvariant, PTL

\* Who plays has every change that was not lost with a core, unless a logon was taken
\* from a session that was not over or a load came between the packets of a change of
\* channel (QUERY_PLAYER_LOAD, m_map_playerCache).
THEOREM PlayerHasLatest == Spec => []PlaysLatest
<1>1. LoginsInv => PlaysLatest
  BY PlayedIsLatest
<1>. QED BY <1>1, LoginsInvariant, PTL

\* What the DB process has of the character only grows, as long as neither has happened
\* (QUERY_PLAYER_SAVE, UpdateLogoutPlayer).
THEOREM SavesOnlyGrow == Spec => SavesGrow
<1>1. LoginsInv /\ [Next]_vars => [Orderly' => Saved \subseteq Saved']_vars
  BY NextKeeps
<1>. QED BY <1>1, LoginsInvariant, PTL DEF Spec, SavesGrow
=============================================================================
