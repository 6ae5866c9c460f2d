------------------------------- MODULE Logins -------------------------------
(***************************************************************************)
(* One account with one character, logged in from the game cores.  The DB  *)
(* process keeps the login data of each key that AUTH_LOGIN has announced  *)
(* (only the latest is found again) and the logon; a core keeps a          *)
(* descriptor for each connection and saves the character when it ends.    *)
(* Connections to the DB process are FIFO; queries are answered later.     *)
(*                                                                         *)
(* What a character is worth is the set of changes made to it.  made,      *)
(* dropped and overtaken are history: no action looks at them.             *)
(***************************************************************************)
EXTENDS Naturals, SequencesExt

CONSTANTS
    Cores, NoCore,
    NumKeys,    \* how often the account is authenticated
    NumConns,   \* how many connections it opens; their handles are not used again
    Changes,    \* what can happen to the character
    Limit       \* how often each kind of event may happen (Kinds)

Kinds == {"select", "save", "leave", "crash"}   \* who leaves hangs up or changes channel
NoCache == {"none"}     \* nothing is cached: no character is worth that

ASSUME LoginAssumption ==
    /\ NoCore \notin Cores /\ NumKeys \in Nat /\ NumConns \in Nat
    /\ NoCache \notin SUBSET Changes
    /\ Limit \in [Kinds -> Nat]

VARIABLES
    conn,       \* descriptor and client of each connection
    name,       \* m_map_loginName of each core: the descriptor, or 0
    up,         \* the cores that run
    peers,      \* m_peerList
    out,        \* from each core to the DB process
    in,         \* from the DB process to each core
    kicks,      \* cores with a HEADER_GG_DISCONNECT under way
    key,        \* the key whose login data is found, 0 before the first
    login,      \* login data by key
    logon,      \* m_map_kLogonAccount: the key of the login data, or 0
    sql,        \* queries under way
    cache,      \* the character in m_map_playerCache, or NoCache
    row,        \* the character in SQL
    leaving,    \* the character is in m_map_logout
    made,       \* every change that was not lost with a core
    dropped,    \* how often LOGIN_BY_KEY took the logon of a session that was not over
    overtaken,  \* a load was answered ahead of the save of a change of channel
    budget      \* what is left of Limit

vars == <<conn, name, up, peers, out, in, kicks, key, login, logon, sql, cache, row, leaving, made,
          dropped, overtaken, budget>>
database == <<key, login, logon, sql, cache, row, leaving, dropped, overtaken>>

Keys == 1 .. NumKeys
Conns == 1 .. NumConns
Unused == [core |-> NoCore, key |-> 0, phase |-> "unused", char |-> {}, client |-> FALSE, timer |-> FALSE]
NoLogin == [play |-> FALSE, handle |-> NoCore, players |-> FALSE]

Spend(k) == budget[k] > 0 /\ budget' = [budget EXCEPT ![k] = @ - 1]
Msg(op, h, k, char) == [op |-> op, conn |-> h, key |-> k, char |-> char]
\* A core that is gone reads nothing.
Tell(c, m) == in' = IF c \in up THEN [in EXCEPT ![c] = Append(@, m)] ELSE in

-----------------------------------------------------------------------------
\* Descriptors.  "game" stands for every phase with a character.
Open(h) == conn[h].phase \in {"login", "select", "game"}
Bound(h) == conn[h].phase \in {"select", "game"}
Playing(h) == conn[h].phase = "game"
Gone(h) == [conn[h] EXCEPT !.phase = "gone", !.char = {}, !.client = FALSE, !.timer = FALSE]

\* DESC::Destroy: CHARACTER::Disconnect saves, then LOGOUT.
\* Mutant: the logout first.
MutDestroyed(h) ==
    IF Playing(h) THEN <<Msg("LOGOUT", h, 0, {}), Msg("PLAYER_SAVE", h, 0, conn[h].char)>>
    ELSE IF Bound(h) THEN <<Msg("LOGOUT", h, 0, {})>> ELSE <<>>
Destroyed(h) ==
    (IF Playing(h) THEN <<Msg("PLAYER_SAVE", h, 0, conn[h].char)>> ELSE <<>>)
    \o (IF Bound(h) THEN <<Msg("LOGOUT", h, 0, {})>> ELSE <<>>)
Destroy(h) ==
    LET c == conn[h].core
    IN /\ conn' = [conn EXCEPT ![h] = Gone(h)]
       /\ name' = IF Bound(h) THEN [name EXCEPT ![c] = 0] ELSE name
       /\ out' = [out EXCEPT ![c] = @ \o Destroyed(h)]

\* DisconnectOfSameLogin: at once, or after five seconds when there is a character.
DisconnectOfSameLogin(h) ==
    IF Playing(h) THEN conn' = [conn EXCEPT ![h].timer = TRUE] /\ UNCHANGED <<name, out>>
    ELSE Destroy(h)

-----------------------------------------------------------------------------
\* The clients (external): one connection at a time with a key.  Who has hung up
\* may be back before the servers know it.
LoginByKey(h, c, k) ==
    /\ conn[h] = Unused /\ \A g \in 1 .. h - 1 : conn[g] # Unused
    /\ c \in up /\ k \in 1 .. key
    /\ \A g \in Conns : conn[g].key = k => ~conn[g].client
    /\ conn' = [conn EXCEPT ![h] = [@ EXCEPT !.core = c, !.key = k, !.phase = "login", !.client = TRUE]]
    /\ out' = [out EXCEPT ![c] = Append(@, Msg("LOGIN_BY_KEY", h, k, {}))]
    /\ UNCHANGED <<name, up, peers, in, kicks, made, budget>> /\ UNCHANGED database

HangUp(h) ==
    /\ Open(h) /\ conn[h].client /\ Spend("leave")
    /\ conn' = [conn EXCEPT ![h].client = FALSE]
    /\ UNCHANGED <<name, up, peers, out, in, kicks, made>> /\ UNCHANGED database

CharacterSelect(h) ==
    /\ conn[h].phase = "select" /\ conn[h].client /\ Spend("select")
    /\ out' = [out EXCEPT ![conn[h].core] = Append(@, Msg("PLAYER_LOAD", h, 0, {}))]
    /\ UNCHANGED <<conn, name, up, peers, in, kicks, made>> /\ UNCHANGED database

Play(h, e) ==
    /\ Playing(h) /\ e \notin made /\ \A g \in Conns : e \notin conn[g].char
    /\ conn' = [conn EXCEPT ![h].char = @ \cup {e}]
    /\ made' = made \cup {e}
    /\ UNCHANGED <<name, up, peers, out, in, kicks, budget>> /\ UNCHANGED database

SaveReal(h) ==
    /\ Playing(h) /\ Spend("save")
    /\ out' = [out EXCEPT ![conn[h].core] = Append(@, Msg("PLAYER_SAVE", h, 0, conn[h].char))]
    /\ UNCHANGED <<conn, name, up, peers, in, kicks, made>> /\ UNCHANGED database

\* The connection is lost, or its five seconds are over.
Close(h) ==
    /\ Open(h) /\ (~conn[h].client \/ conn[h].timer)
    /\ Destroy(h)
    /\ UNCHANGED <<up, peers, in, kicks, made, budget>> /\ UNCHANGED database

\* change_channel_event: LOGOUT, then the save of Disconnect; no second LOGOUT.
\* DestroyClosed comes before the core reads anything else; the DB process may read
\* other cores between the two.  The save bears the key, for HalfRead to tell it.
ChangeChannel(h) ==
    LET c == conn[h].core
    IN /\ Playing(h) /\ Spend("leave")
       /\ conn' = [conn EXCEPT ![h] = Gone(h)]
       /\ name' = [name EXCEPT ![c] = 0]
       /\ out' = [out EXCEPT ![c] = @ \o <<Msg("LOGOUT", h, 0, {}), Msg("PLAYER_SAVE", h, conn[h].key, conn[h].char)>>]
       /\ UNCHANGED <<up, peers, in, kicks, made>> /\ UNCHANGED database

\* A change of channel of which only the LOGOUT has been read.
HalfRead(c) == out[c] # <<>> /\ Head(out[c]).op = "PLAYER_SAVE" /\ Head(out[c]).key # 0

-----------------------------------------------------------------------------
\* Answers of the DB process.
BindAccountTable(c, h) ==
    /\ conn' = [conn EXCEPT ![h].phase = "select"]
    /\ name' = IF name[c] = 0 THEN [name EXCEPT ![c] = h] ELSE name

\* Mutant: nothing is said of a connection that is gone.
MutCannotFindHandle(c, h) == UNCHANGED out
CannotFindHandle(c, h) == out' = [out EXCEPT ![c] = Append(@, Msg("LOGOUT", h, 0, {}))]
LoginSuccess(c, h) ==
    /\ IF Open(h) THEN BindAccountTable(c, h) /\ UNCHANGED out
       ELSE CannotFindHandle(c, h) /\ UNCHANGED <<conn, name>>
    /\ UNCHANGED kicks

\* Mutant: only this core is asked.
MutLoginAlready(c, h) ==
    IF Open(h) /\ name[c] # 0 THEN DisconnectOfSameLogin(name[c]) /\ UNCHANGED kicks
    ELSE UNCHANGED <<conn, name, out, kicks>>
LoginAlready(c, h) ==
    IF ~Open(h) THEN UNCHANGED <<conn, name, out, kicks>>
    ELSE IF name[c] # 0 THEN DisconnectOfSameLogin(name[c]) /\ UNCHANGED kicks
    ELSE kicks' = kicks \cup (up \ {c}) /\ UNCHANGED <<conn, name, out>>

\* FindPC: the character is on this core already.
PlayerLoad(c, h, char) ==
    /\ conn' = IF conn[h].phase = "select" /\ ~\E g \in Conns : conn[g].core = c /\ Playing(g)
               THEN [conn EXCEPT ![h].phase = "game", ![h].char = char]
               ELSE conn
    /\ UNCHANGED <<name, out, kicks>>

ReadDB(c) ==
    /\ c \in up /\ in[c] # <<>>
    /\ in' = [in EXCEPT ![c] = Tail(@)]
    /\ LET m == Head(in[c])
       IN \/ m.op = "LOGIN_SUCCESS" /\ LoginSuccess(c, m.conn)
          \/ m.op = "LOGIN_ALREADY" /\ LoginAlready(c, m.conn)
          \/ m.op = "PLAYER_LOAD_SUCCESS" /\ PlayerLoad(c, m.conn, m.char)
          \/ m.op \in {"LOGIN_NOT_EXIST", "PLAYER_LOAD_FAILED"} /\ UNCHANGED <<conn, name, out, kicks>>
    /\ UNCHANGED <<up, peers, made, budget>> /\ UNCHANGED database

\* CInputP2P::Disconnect
Kick(c) ==
    /\ c \in kicks /\ kicks' = kicks \ {c}
    /\ IF name[c] = 0 THEN UNCHANGED <<conn, name, out>> ELSE DisconnectOfSameLogin(name[c])
    /\ UNCHANGED <<up, peers, in, made, budget>> /\ UNCHANGED database

-----------------------------------------------------------------------------
\* The DB process.
DeleteLogonAccount(handle) ==
    IF logon # 0 /\ login[logon].handle = handle
    THEN logon' = 0 /\ login' = [login EXCEPT ![logon].play = FALSE]
    ELSE UNCHANGED <<logon, login>>

\* Nothing keeps it from coming between a login and its result.
QUERY_AUTH_LOGIN ==
    /\ key < NumKeys
    /\ key' = key + 1
    /\ UNCHANGED <<conn, name, up, peers, out, in, kicks, login, logon, sql, cache, row, leaving, made, dropped, overtaken, budget>>

\* A session is not over while its logon is being told, it is bound, or its last save
\* or its logout is under way.
LastWords(m) == m.op = "LOGOUT" \/ (m.op = "PLAYER_SAVE" /\ m.key = 0)
Unfinished(h) ==
    \/ Bound(h)
    \/ \E c \in Cores : \/ \E n \in DOMAIN in[c] : in[c][n].conn = h /\ in[c][n].op = "LOGIN_SUCCESS"
                        \/ \E n \in DOMAIN out[c] : out[c][n].conn = h /\ LastWords(out[c][n])
\* The sessions that may have the logon, for all that the login data tells.
Holders == {h \in Conns : Unfinished(h) /\ logon # 0 /\ conn[h].core = login[logon].handle}

\* A logon under the same key is taken for the client's own, and deleted.
Deletes == logon # 0 /\ login[logon].handle = login[key].handle
QUERY_LOGIN_BY_KEY(c, m) ==
    /\ IF m.key # key
       THEN Tell(c, Msg("LOGIN_NOT_EXIST", m.conn, 0, {})) /\ UNCHANGED <<login, logon, sql, dropped>>
       ELSE /\ DeleteLogonAccount(login[key].handle)
            /\ dropped' = IF Deletes /\ Holders # {} THEN dropped + 1 ELSE dropped
            /\ sql' = Append(sql, [op |-> "LOGIN", core |-> c, conn |-> m.conn, char |-> {}])
            /\ UNCHANGED in
    /\ UNCHANGED <<cache, row, leaving, overtaken>>

QUERY_LOGOUT(c) ==
    /\ leaving' = (leaving \/ login[key].players)
    /\ DeleteLogonAccount(c)
    /\ UNCHANGED <<in, sql, cache, row, dropped, overtaken>>

LoadSucceeds(c, h, char) ==
    /\ login' = [login EXCEPT ![key].play = TRUE]
    /\ Tell(c, Msg("PLAYER_LOAD_SUCCESS", h, 0, char))
LoadFails(c, h) == Tell(c, Msg("PLAYER_LOAD_FAILED", h, 0, {})) /\ UNCHANGED login

QUERY_PLAYER_LOAD(c, h) ==
    /\ leaving' = (leaving /\ ~login[key].players)
    /\ IF cache = NoCache
       THEN /\ sql' = Append(sql, [op |-> "PLAYER", core |-> c, conn |-> h, char |-> row])
            /\ UNCHANGED <<in, login>>
       ELSE /\ IF login[key].play THEN LoadFails(c, h) ELSE LoadSucceeds(c, h, cache)
            /\ UNCHANGED sql
    /\ overtaken' = (overtaken \/ \E d \in Cores : HalfRead(d))
    /\ UNCHANGED <<logon, cache, row, dropped>>

QUERY_PLAYER_SAVE(char) ==
    /\ cache' = char
    /\ UNCHANGED <<in, login, logon, sql, row, leaving, dropped, overtaken>>

ReadCore(c) ==
    /\ c \in peers /\ out[c] # <<>>
    /\ out' = [out EXCEPT ![c] = Tail(@)]
    /\ LET m == Head(out[c])
       IN \/ m.op = "LOGIN_BY_KEY" /\ QUERY_LOGIN_BY_KEY(c, m)
          \/ m.op = "LOGOUT" /\ QUERY_LOGOUT(c)
          \/ m.op = "PLAYER_LOAD" /\ QUERY_PLAYER_LOAD(c, m.conn)
          \/ m.op = "PLAYER_SAVE" /\ QUERY_PLAYER_SAVE(m.char)
    /\ UNCHANGED <<conn, name, up, peers, kicks, key, made, budget>>

\* InsertLogonAccount takes the latest login data, whichever key was asked for.
\* Mutant: an account may log on twice.
MutTaken == FALSE
Taken == logon # 0
RESULT_LOGIN(c, h) ==
    IF Taken THEN Tell(c, Msg("LOGIN_ALREADY", h, 0, {})) /\ UNCHANGED <<login, logon>>
    ELSE /\ logon' = key
         /\ login' = [login EXCEPT ![key].handle = c, ![key].players = TRUE]
         /\ Tell(c, Msg("LOGIN_SUCCESS", h, 0, {}))

RESULT_PLAYER_LOAD(c, h, char) ==
    /\ IF login[key].play THEN LoadFails(c, h) ELSE LoadSucceeds(c, h, char)
    /\ UNCHANGED logon

\* The result for a peer that has been removed is dropped.
AnalyzeQueryResult ==
    /\ sql # <<>> /\ sql' = Tail(sql)
    /\ LET q == Head(sql)
       IN \/ q.core \notin peers /\ UNCHANGED <<in, login, logon>>
          \/ q.core \in peers /\ q.op = "LOGIN" /\ RESULT_LOGIN(q.core, q.conn)
          \/ q.core \in peers /\ q.op = "PLAYER" /\ RESULT_PLAYER_LOAD(q.core, q.conn, q.char)
    /\ UNCHANGED <<conn, name, up, peers, out, kicks, key, cache, row, leaving, made, dropped, overtaken, budget>>

\* After g_iLogoutSeconds.
\* Mutant: the cache is dropped unwritten.
MutWritten == row
Written == IF cache = NoCache THEN row ELSE cache
UpdateLogoutPlayer ==
    /\ leaving /\ leaving' = FALSE
    /\ row' = Written
    /\ cache' = NoCache
    /\ UNCHANGED <<conn, name, up, peers, out, in, kicks, key, login, logon, sql, made, dropped, overtaken, budget>>

-----------------------------------------------------------------------------
\* A core is lost, with what it had not saved.  What it sent still arrives before
\* the DB process notices.
Saved == IF cache = NoCache THEN row ELSE cache
Saves(c) == {out[c][n].char : n \in {n \in DOMAIN out[c] : out[c][n].op = "PLAYER_SAVE"}}
CharsOff(c) == UNION {conn[h].char : h \in {h \in Conns : conn[h].core # c}}

Crash(c) ==
    /\ c \in up /\ Spend("crash")
    /\ up' = up \ {c} /\ kicks' = kicks \ {c}
    /\ conn' = [h \in Conns |-> IF conn[h].core = c /\ Open(h) THEN Gone(h) ELSE conn[h]]
    /\ name' = [name EXCEPT ![c] = 0] /\ in' = [in EXCEPT ![c] = <<>>]
    /\ made' = made \cap (Saved \cup CharsOff(c) \cup UNION UNION {Saves(d) : d \in Cores})
    /\ UNCHANGED <<peers, out>> /\ UNCHANGED database

RemovePeer(c) ==
    /\ c \in peers \ up /\ out[c] = <<>>
    /\ peers' = peers \ {c}
    /\ DeleteLogonAccount(c)
    /\ UNCHANGED <<conn, name, up, out, in, kicks, key, sql, cache, row, leaving, made, dropped, overtaken, budget>>

Init ==
    /\ conn = [h \in Conns |-> Unused] /\ name = [c \in Cores |-> 0]
    /\ up = Cores /\ peers = Cores
    /\ out = [c \in Cores |-> <<>>] /\ in = [c \in Cores |-> <<>>] /\ kicks = {}
    /\ key = 0 /\ login = [k \in Keys |-> NoLogin] /\ logon = 0 /\ sql = <<>>
    /\ cache = NoCache /\ row = {} /\ leaving = FALSE
    /\ made = {} /\ dropped = 0 /\ overtaken = FALSE /\ budget = Limit

Next ==
    \/ QUERY_AUTH_LOGIN \/ AnalyzeQueryResult \/ UpdateLogoutPlayer
    \/ \E c \in Cores : ReadDB(c) \/ ReadCore(c) \/ Kick(c) \/ Crash(c) \/ RemovePeer(c)
    \/ \E h \in Conns : HangUp(h) \/ CharacterSelect(h) \/ SaveReal(h) \/ Close(h) \/ ChangeChannel(h)
    \/ \E h \in Conns, c \in Cores, k \in Keys : LoginByKey(h, c, k)
    \/ \E h \in Conns, e \in Changes : Play(h, e)

Spec == Init /\ [][Next]_vars

\* The loops of the processes: reading, query results, lost connections, timers.
Fairness ==
    /\ WF_vars(AnalyzeQueryResult)
    /\ \A c \in Cores : WF_vars(ReadDB(c)) /\ WF_vars(ReadCore(c)) /\ WF_vars(Kick(c)) /\ WF_vars(RemovePeer(c))
    /\ \A h \in Conns : WF_vars(Close(h))
FairSpec == Spec /\ Fairness

-----------------------------------------------------------------------------
\* The account's character is in one session at a time, whatever logs in, hangs up or
\* crashes, and however late the servers are; in one more for each logon that
\* LOGIN_BY_KEY (ClientManagerLogin.cpp:116) took from a session that was not over, and
\* that is all a stray LOGOUT ever brings about.
OneSession == Cardinality({h \in Conns : Bound(h)}) <= 1 + dropped

\* No logon was taken from a session that was not over, and no load came between the
\* two packets of a change of channel (input_main.cpp:4433).  The code sees to neither.
Orderly == dropped = 0 /\ ~overtaken

\* Who plays has everything that was ever done to the character and not lost with a
\* core, as long as neither of those two races happens: there is no third way for a
\* load to overtake a save.
PlaysLatest == Orderly => \A h \in Conns : Playing(h) => made \subseteq conn[h].char

\* Nor is there one for the DB process to go back to an older character.
SavesGrow == [][Orderly' => Saved \subseteq Saved']_vars

\* "Same key = same session (channel change)" (ClientManagerLogin.cpp:118): the logon that
\* LOGIN_BY_KEY deletes is that of a connection with the same key.
SameKeySameSession == [][dropped' > dropped => \A h \in Holders : conn[h].key = key]_vars

\* A logon whose session is gone ends: every way a connection can end is
\* reported in the end, a login that was too late for its client included.
LogonEnds == (logon # 0 /\ \A h \in Conns : ~Open(h)) ~> (logon = 0 \/ \E h \in Conns : Open(h))

\* Who waits after ALREADY sees the session that was in the way end, as long as no
\* logon is taken from a session: with two on a core, m_map_loginName knows one only.
AlreadyEnds ==
    \A g, h \in Conns : g # h =>
        ((Playing(g) /\ Open(h) /\ \E n \in DOMAIN in[conn[h].core] :
            in[conn[h].core][n].op = "LOGIN_ALREADY" /\ in[conn[h].core][n].conn = h)
         ~> (~Playing(g) \/ ~Open(h) \/ dropped > 0))
=============================================================================
