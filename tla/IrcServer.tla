------------------------------ MODULE IrcServer ------------------------------
(***************************************************************************)
(* The event engine of the ergo IRC server (src/irc/server.go).            *)
(*                                                                         *)
(* One dispatcher (Server.Run) owns all shared state and pops one event at *)
(* a time from four Go channels: new connections, commands, idle and       *)
(* timeout notifications, and termination signals.  Client reader tasks    *)
(* and per-client heartbeat timers run concurrently and only enqueue.      *)
(* Commands are dispatched by the phase of the issuing client              *)
(* (processCommand); the handlers mutate the nickname index               *)
(* (ClientLookupSet), the channel table and channel membership.           *)
(*                                                                         *)
(* Client and Channel methods (Register, ChangeNickname, Quit, Join, Part, *)
(* Kick, Touch, Idle) live outside src/ and are modelled from spec.md.     *)
(* Replies are not modelled: no property here is about reply text.         *)
(***************************************************************************)
EXTENDS Naturals, Sequences

CONSTANTS
    Client,       \* connections the listeners may accept (model values)
    Nick,         \* nicknames IsNickname accepts, some differing only in case
    Lower(_),     \* strings.ToLower on a nickname
    BadNick,      \* a non-empty nickname IsNickname rejects
    NoNick,       \* the empty nickname ("")
    NoClient,     \* nil *Client
    Chan,         \* channel names IsChannel accepts
    NoChan,       \* "JOIN 0" (JoinCommand.zero)
    Persistent,   \* channels loadChannels reads from the store
    PasswordSet,  \* config.Server.Password != ""
    QueueCap,     \* capacity of the Server.commands channel (16)
    EventCap,     \* capacity of the Server.idle and Server.timeout channels (16)
    ConnCap,      \* capacity of the Server.newConns channel (16)
    SentVerb,     \* the verbs client readers submit in this instance
    DbFaults      \* whether a ClientDB statement may fail (its error is only logged)

ASSUME NickAssumption ==
    /\ \A n \in Nick : Lower(n) \in Nick /\ Lower(Lower(n)) = Lower(n)
    /\ BadNick \notin Nick
    /\ NoNick \notin Nick \cup {BadNick}

ASSUME ClientAssumption == NoClient \notin Client

ASSUME ChanAssumption == Persistent \subseteq Chan /\ NoChan \notin Chan

ASSUME ConfigAssumption ==
    /\ PasswordSet \in BOOLEAN
    /\ QueueCap \in Nat \ {0}
    /\ EventCap \in Nat \ {0}
    /\ ConnCap \in Nat \ {0}
    /\ DbFaults \in BOOLEAN

\* Keys of ClientLookupSet.byNick: lowercased nicknames.
LNick == {Lower(n) : n \in Nick}

Phase == {"Unconnected", "Authorization", "Registration", "Normal", "Terminated"}

\* Phases in which the client's socket is open and its reader submits.
Open == {"Authorization", "Registration", "Normal"}

Verb == {"PASS", "NICK", "USER", "QUIT", "JOIN", "PART", "KICK", "KILL",
         "OPER", "MODE", "PONG"}

ASSUME SentVerbAssumption == SentVerb \subseteq Verb

\* The verbs implementing AuthServerCommand and RegServerCommand.
AuthVerbs == {"PASS", "QUIT"}
RegVerbs  == {"NICK", "USER", "QUIT"}

\* A parsed command.  ok: PASS/OPER password accepted, MODE "+" (else "-").
Command == [client : Client, verb : Verb, nick : Nick \cup {NoNick, BadNick},
            chan : Chan \cup {NoChan}, ok : BOOLEAN]

\* The arguments each verb's parser fills in: NICK takes any parameter
\* (missing, invalid or a nickname), KICK/KILL/MODE a nickname; JOIN takes
\* "0" (NoChan) or a channel, PART/KICK a channel; PASS, OPER and MODE
\* carry a flag (password accepted, "+" rather than "-").
NickArg(v) == CASE v = "NICK"                    -> Nick \cup {NoNick, BadNick}
                [] v \in {"KICK", "KILL", "MODE"} -> Nick
                [] OTHER                          -> {NoNick}
ChanArg(v) == CASE v = "JOIN"           -> Chan \cup {NoChan}
                [] v \in {"PART", "KICK"} -> Chan
                [] OTHER                 -> {NoChan}
OkArg(v) == IF v \in {"PASS", "OPER", "MODE"} THEN BOOLEAN ELSE {TRUE}

\* Every command the reader of client c may submit.
AllInput(c) == {cmd \in Command : /\ cmd.client = c
                                  /\ cmd.nick \in NickArg(cmd.verb)
                                  /\ cmd.chan \in ChanArg(cmd.verb)
                                  /\ cmd.ok \in OkArg(cmd.verb)}

\* The commands submitted in this instance.
Input(c) == {cmd \in AllInput(c) : cmd.verb \in SentVerb}

VARIABLES
    phase,        \* client.phase
    nick,         \* client.nick
    username,     \* client.HasUsername()
    operator,     \* client.flags[Operator]
    byNick,       \* ClientLookupSet.byNick: lowercased nick -> client
    db,           \* ClientLookupSet.db, table client: <<nickname, userhost>> rows
    channels,     \* Server.channels: names present in the channel table
    members,      \* channel.members
    chanops,      \* members holding ChannelOperator
    memberOf,     \* client.channels
    newConns,     \* Server.newConns: accepted connections not yet made clients
    commands,     \* Server.commands
    idleQ,        \* Server.idle
    timeoutQ,     \* Server.timeout
    idleArmed,    \* client.idleTimer is running
    quitArmed,    \* client.quitTimer is running
    awaitingPong, \* history: a PING was sent and no command touched the client since
    running       \* Server.Run has not reached done

clientVars == <<phase, nick, username, operator>>
chanVars   == <<channels, members, chanops, memberOf>>
timerVars  == <<idleArmed, quitArmed, awaitingPong>>
queueVars  == <<newConns, commands, idleQ, timeoutQ>>
vars == <<clientVars, byNick, db, chanVars, queueVars, timerVars, running>>

-----------------------------------------------------------------------------
(* The nickname index (ClientLookupSet).                                   *)

\* ClientLookupSet.Get: case-insensitive lookup; an invalid nick is never a key.
Get(n) == IF n \in Nick THEN byNick[Lower(n)] ELSE NoClient

\* Mutant: Add without the ErrNicknameInUse check.
IndexAddOverwrite(idx, c, n) ==
    IF n = NoNick THEN idx ELSE [idx EXCEPT ![Lower(n)] = c]

\* ClientLookupSet.Add for client c whose nick is n: no-op on error.
IndexAdd(idx, c, n) ==
    IF n = NoNick \/ idx[Lower(n)] # NoClient THEN idx
    ELSE [idx EXCEPT ![Lower(n)] = c]

\* Mutant: Remove without the ErrNicknameMismatch guard.
IndexRemoveNoOwnerCheck(idx, c, n) ==
    IF n = NoNick THEN idx ELSE [idx EXCEPT ![Lower(n)] = NoClient]

\* ClientLookupSet.Remove: deletes the entry only if it is c's own.
IndexRemove(idx, c, n) ==
    IF n = NoNick \/ idx[Lower(n)] # c THEN idx
    ELSE [idx EXCEPT ![Lower(n)] = NoClient]

(* ClientDB: the in-memory SQL table Add and Remove keep beside byNick.    *)
(* A row is <<nickname, userhost>>; the userhost (user@host, fixed once   *)
(* the client registers) is abstracted to the client it belongs to.        *)

\* INSERT: the nickname column is UNIQUE (and compared with case), so a
\* duplicate row is refused.
DbInsert(d, n, c) == IF \E r \in d : r[1] = n THEN d ELSE d \cup {<<n, c>>}

\* DELETE FROM client WHERE nickname = n.
DbDelete(d, n) == {r \in d : r[1] # n}

\* Executing a statement: its error is only logged, so a failed statement
\* leaves the table as it was and the caller carries on.
DbExec(d, e) == IF DbFaults THEN {d, e} ELSE {e}

\* The table after ClientLookupSet.Add: db.Add runs only past Add's guards.
DbAfterAdd(idx, d, c, n) ==
    IF n = NoNick \/ idx[Lower(n)] # NoClient THEN {d}
    ELSE DbExec(d, DbInsert(d, n, c))

\* Mutant: Remove deletes the byNick entry but never runs db.Remove.
DbAfterRemoveKeep(idx, d, c, n) == {d}

\* The table after ClientLookupSet.Remove: db.Remove runs only past its guards.
DbAfterRemove(idx, d, c, n) ==
    IF n = NoNick \/ idx[Lower(n)] # c THEN {d}
    ELSE DbExec(d, DbDelete(d, n))

-----------------------------------------------------------------------------
(* Client and Channel methods (modelled from spec.md).                     *)

\* Mutant: an emptied channel is never removed from the table.
LeaveNoDelete(c, S) ==
    /\ members' = [ch \in Chan |-> IF ch \in S THEN members[ch] \ {c} ELSE members[ch]]
    /\ chanops' = [ch \in Chan |-> IF ch \in S THEN chanops[ch] \ {c} ELSE chanops[ch]]
    /\ memberOf' = [memberOf EXCEPT ![c] = @ \ S]
    /\ UNCHANGED channels

\* c leaves every channel in S; a non-persistent channel left empty is deleted.
Leave(c, S) ==
    /\ members' = [ch \in Chan |-> IF ch \in S THEN members[ch] \ {c} ELSE members[ch]]
    /\ chanops' = [ch \in Chan |-> IF ch \in S THEN chanops[ch] \ {c} ELSE chanops[ch]]
    /\ memberOf' = [memberOf EXCEPT ![c] = @ \ S]
    /\ channels' = channels \ {ch \in S : members'[ch] = {} /\ ch \notin Persistent}

\* Client.Quit: leave all channels, drop from the index, close the socket.
QuitClient(c) ==
    /\ phase' = [phase EXCEPT ![c] = "Terminated"]
    /\ Leave(c, memberOf[c])
    /\ byNick' = IndexRemove(byNick, c, nick[c])
    /\ db' \in DbAfterRemove(byNick, db, c, nick[c])
    /\ UNCHANGED <<nick, username, operator>>

\* Mutant: the new nick is added without removing the old one.
ChangeNicknameNoRemove(c, n) ==
    /\ nick' = [nick EXCEPT ![c] = n]
    /\ byNick' = IndexAdd(byNick, c, n)
    /\ db' \in DbAfterAdd(byNick, db, c, n)
    /\ UNCHANGED <<phase, username, operator>>
    /\ UNCHANGED chanVars

\* Client.ChangeNickname: Remove under the old nick, then Add under the new.
ChangeNickname(c, n) ==
    /\ nick' = [nick EXCEPT ![c] = n]
    /\ byNick' = IndexAdd(IndexRemove(byNick, c, nick[c]), c, n)
    /\ \E d \in DbAfterRemove(byNick, db, c, nick[c]) :
          db' \in DbAfterAdd(IndexRemove(byNick, c, nick[c]), d, c, n)
    /\ UNCHANGED <<phase, username, operator>>
    /\ UNCHANGED chanVars

\* Channel.Join; the first member of a channel this JOIN created is its operator.
Join(c, ch) ==
    /\ channels' = channels \cup {ch}
    /\ members' = [members EXCEPT ![ch] = @ \cup {c}]
    /\ chanops' = IF ch \notin channels THEN [chanops EXCEPT ![ch] = @ \cup {c}]
                  ELSE chanops
    /\ memberOf' = [memberOf EXCEPT ![c] = @ \cup {ch}]

\* A handler path that only replies (an error numeric, or nothing).
NoChange == UNCHANGED <<clientVars, byNick, db, chanVars>>

-----------------------------------------------------------------------------
\* Mutant: the client is added to the index by NICK, before registering.
TryRegisterEarlyIndex(c, n, hasUser) ==
    /\ byNick' = IndexAdd(byNick, c, n)
    /\ db' \in DbAfterAdd(byNick, db, c, n)
    /\ phase' = IF n # NoNick /\ hasUser THEN [phase EXCEPT ![c] = "Normal"]
                ELSE phase

(* Server.tryRegister / Client.Register: with both NICK and USER given the  *)
(* client becomes Normal and is added to the index; Add's error is ignored. *)
TryRegister(c, n, hasUser) ==
    IF n # NoNick /\ hasUser
    THEN /\ phase' = [phase EXCEPT ![c] = "Normal"]
         /\ byNick' = IndexAdd(byNick, c, n)
         /\ db' \in DbAfterAdd(byNick, db, c, n)
    ELSE UNCHANGED <<phase, byNick, db>>

(* Authorization handlers. *)
PassAuth(c, ok) ==
    \/ ~ok /\ QuitClient(c)
    \/ ok /\ phase' = [phase EXCEPT ![c] = "Registration"]
          /\ UNCHANGED <<nick, username, operator, byNick, db>> /\ UNCHANGED chanVars

\* Mutant: NICK during registration without the IsNickname check.
NickRegNoValidity(c, n) ==
    \/ n = NoNick /\ NoChange
    \/ n # NoNick /\ Get(n) # NoClient /\ NoChange
    \/ /\ n # NoNick /\ Get(n) = NoClient
       /\ nick' = [nick EXCEPT ![c] = n]
       /\ TryRegister(c, n, username[c])
       /\ UNCHANGED <<username, operator>> /\ UNCHANGED chanVars

(* Registration handlers. *)
NickReg(c, n) ==
    \/ n = NoNick /\ NoChange
    \/ n # NoNick /\ Get(n) # NoClient /\ NoChange
    \/ n # NoNick /\ Get(n) = NoClient /\ n \notin Nick /\ NoChange
    \/ /\ n \in Nick /\ Get(n) = NoClient
       /\ nick' = [nick EXCEPT ![c] = n]
       /\ TryRegister(c, n, username[c])
       /\ UNCHANGED <<username, operator>> /\ UNCHANGED chanVars

UserReg(c) ==
    /\ username' = [username EXCEPT ![c] = TRUE]
    /\ TryRegister(c, nick[c], TRUE)
    /\ UNCHANGED <<nick, operator>> /\ UNCHANGED chanVars

(* Normal handlers. *)
NickNormal(c, n) ==
    \/ n = NoNick /\ NoChange
    \/ n # NoNick /\ n \notin Nick /\ NoChange
    \/ n \in Nick /\ n = nick[c] /\ NoChange
    \/ n \in Nick /\ n # nick[c] /\ Get(n) \notin {NoClient, c} /\ NoChange
    \/ n \in Nick /\ n # nick[c] /\ Get(n) \in {NoClient, c} /\ ChangeNickname(c, n)

\* Mutant: JOIN without the channels.Get lookup: every JOIN makes a new channel.
JoinNormalFresh(c, ch) ==
    \/ ch = NoChan /\ Leave(c, memberOf[c])
                   /\ UNCHANGED <<clientVars, byNick, db>>
    \/ /\ ch \in Chan
       /\ channels' = channels \cup {ch}
       /\ members' = [members EXCEPT ![ch] = {c}]
       /\ chanops' = [chanops EXCEPT ![ch] = {c}]
       /\ memberOf' = [memberOf EXCEPT ![c] = @ \cup {ch}]
       /\ UNCHANGED <<clientVars, byNick, db>>

JoinNormal(c, ch) ==
    \/ ch = NoChan /\ Leave(c, memberOf[c])
                   /\ UNCHANGED <<clientVars, byNick, db>>
    \/ ch \in Chan /\ Join(c, ch) /\ UNCHANGED <<clientVars, byNick, db>>

PartNormal(c, ch) ==
    \/ ch \notin channels /\ NoChange
    \/ ch \in channels /\ c \notin members[ch] /\ NoChange
    \/ ch \in channels /\ c \in members[ch] /\ Leave(c, {ch})
                       /\ UNCHANGED <<clientVars, byNick, db>>

KickNormal(c, n, ch) ==
    \/ ch \notin channels /\ NoChange
    \/ ch \in channels /\ Get(n) = NoClient /\ NoChange
    \/ /\ ch \in channels /\ Get(n) # NoClient
       /\ \/ c \notin chanops[ch] /\ NoChange
          \/ c \in chanops[ch] /\ Get(n) \notin members[ch] /\ NoChange
          \/ /\ c \in chanops[ch] /\ Get(n) \in members[ch]
             /\ Leave(Get(n), {ch}) /\ UNCHANGED <<clientVars, byNick, db>>

KillNormal(c, n) ==
    \/ ~operator[c] /\ NoChange
    \/ operator[c] /\ Get(n) = NoClient /\ NoChange
    \/ operator[c] /\ Get(n) # NoClient /\ QuitClient(Get(n))

OperNormal(c, ok) ==
    \/ ~ok /\ NoChange
    \/ ok /\ operator' = [operator EXCEPT ![c] = TRUE]
          /\ UNCHANGED <<phase, nick, username, byNick, db>> /\ UNCHANGED chanVars

\* User MODE <nick> (+|-)o: only removal of Operator is honoured.
ModeNormal(c, n, add) ==
    \/ Get(n) = NoClient /\ NoChange
    \/ Get(n) # NoClient /\ c # Get(n) /\ ~operator[c] /\ NoChange
    \/ /\ Get(n) # NoClient /\ (c = Get(n) \/ operator[c])
       /\ \/ add /\ NoChange
          \/ ~add /\ operator' = [operator EXCEPT ![Get(n)] = FALSE]
                  /\ UNCHANGED <<phase, nick, username, byNick, db>> /\ UNCHANGED chanVars

\* Client.Touch: restart the idle timer, stop the quit timer.
Touch(c) ==
    /\ idleArmed' = [idleArmed EXCEPT ![c] = TRUE]
    /\ quitArmed' = [quitArmed EXCEPT ![c] = FALSE]
    /\ awaitingPong' = [awaitingPong EXCEPT ![c] = FALSE]

-----------------------------------------------------------------------------
(* Server.processCommand: dispatch on the phase of the issuing client.     *)

AuthorizationCmd(cmd) ==
    LET c == cmd.client IN
    /\ phase[c] = "Authorization"
    /\ \/ cmd.verb \notin AuthVerbs /\ QuitClient(c)
       \/ cmd.verb = "PASS" /\ PassAuth(c, cmd.ok)
       \/ cmd.verb = "QUIT" /\ QuitClient(c)
    /\ UNCHANGED timerVars

\* Mutant: the registration branch also takes a Terminated client's commands.
RegistrationCmdTerminated(cmd) ==
    LET c == cmd.client IN
    /\ phase[c] \in {"Registration", "Terminated"}
    /\ \/ cmd.verb \notin RegVerbs /\ QuitClient(c)
       \/ cmd.verb = "NICK" /\ NickReg(c, cmd.nick)
       \/ cmd.verb = "USER" /\ UserReg(c)
       \/ cmd.verb = "QUIT" /\ QuitClient(c)
    /\ UNCHANGED timerVars

RegistrationCmd(cmd) ==
    LET c == cmd.client IN
    /\ phase[c] = "Registration"
    /\ \/ cmd.verb \notin RegVerbs /\ QuitClient(c)
       \/ cmd.verb = "NICK" /\ NickReg(c, cmd.nick)
       \/ cmd.verb = "USER" /\ UserReg(c)
       \/ cmd.verb = "QUIT" /\ QuitClient(c)
    /\ UNCHANGED timerVars

\* Mutant: QUIT treated like PING/PONG in the Normal branch.
NormalCmdQuitIgnored(cmd) ==
    LET c == cmd.client IN
    /\ phase[c] \in {"Normal", "Terminated"}
    /\ IF cmd.verb = "QUIT" THEN UNCHANGED timerVars ELSE Touch(c)
    /\ \/ cmd.verb \in {"PASS", "USER", "PONG", "QUIT"} /\ NoChange
       \/ cmd.verb = "NICK" /\ NickNormal(c, cmd.nick)
       \/ cmd.verb = "JOIN" /\ JoinNormal(c, cmd.chan)
       \/ cmd.verb = "PART" /\ PartNormal(c, cmd.chan)
       \/ cmd.verb = "KICK" /\ KickNormal(c, cmd.nick, cmd.chan)
       \/ cmd.verb = "KILL" /\ KillNormal(c, cmd.nick)
       \/ cmd.verb = "OPER" /\ OperNormal(c, cmd.ok)
       \/ cmd.verb = "MODE" /\ ModeNormal(c, cmd.nick, cmd.ok)

\* The default branch: Normal, and also Terminated (a command still queued
\* when its client quit).  Every verb but QUIT touches the client first.
NormalCmd(cmd) ==
    LET c == cmd.client IN
    /\ phase[c] \in {"Normal", "Terminated"}
    /\ IF cmd.verb = "QUIT" THEN UNCHANGED timerVars ELSE Touch(c)
    /\ \/ cmd.verb \in {"PASS", "USER", "PONG"} /\ NoChange
       \/ cmd.verb = "NICK" /\ NickNormal(c, cmd.nick)
       \/ cmd.verb = "QUIT" /\ QuitClient(c)
       \/ cmd.verb = "JOIN" /\ JoinNormal(c, cmd.chan)
       \/ cmd.verb = "PART" /\ PartNormal(c, cmd.chan)
       \/ cmd.verb = "KICK" /\ KickNormal(c, cmd.nick, cmd.chan)
       \/ cmd.verb = "KILL" /\ KillNormal(c, cmd.nick)
       \/ cmd.verb = "OPER" /\ OperNormal(c, cmd.ok)
       \/ cmd.verb = "MODE" /\ ModeNormal(c, cmd.nick, cmd.ok)

-----------------------------------------------------------------------------
(* Server.Run: the events the dispatcher selects among, and the tasks that *)
(* feed them.                                                              *)

\* Server.InitPhase.
InitPhase == IF PasswordSet THEN "Authorization" ELSE "Registration"

\* Server.listen: Accept returns a new connection and the listener sends it
\* on Server.newConns, blocking while the channel is full.  Listeners are
\* never stopped, so they go on accepting after Run has exited.  An Accept
\* error only logs and loops, and changes nothing.
Accept(c) ==
    /\ phase[c] = "Unconnected"
    /\ \A i \in 1..Len(newConns) : newConns[i] # c
    /\ Len(newConns) < ConnCap
    /\ newConns' = Append(newConns, c)
    /\ UNCHANGED <<clientVars, byNick, db, chanVars, commands, idleQ, timeoutQ,
                   timerVars, running>>

\* Run's newConns case: NewClient(server, conn) starts in InitPhase with the
\* idle timer armed.
Connect(c) ==
    /\ running
    /\ newConns # <<>> /\ c = Head(newConns)
    /\ newConns' = Tail(newConns)
    /\ phase' = [phase EXCEPT ![c] = InitPhase]
    /\ idleArmed' = [idleArmed EXCEPT ![c] = TRUE]
    /\ UNCHANGED <<nick, username, operator, byNick, db, chanVars, commands, idleQ,
                   timeoutQ, quitArmed, awaitingPong, running>>

\* The reader task of c parses a line and submits it (blocking when full).
Submit(c, cmd) ==
    /\ phase[c] \in Open
    /\ Len(commands) < QueueCap
    /\ commands' = Append(commands, cmd)
    /\ UNCHANGED <<clientVars, byNick, db, chanVars, newConns, idleQ, timeoutQ, timerVars,
                   running>>

ProcessCommand ==
    /\ running
    /\ commands # <<>>
    /\ commands' = Tail(commands)
    /\ \/ AuthorizationCmd(Head(commands))
       \/ RegistrationCmd(Head(commands))
       \/ NormalCmd(Head(commands))
    /\ UNCHANGED <<newConns, idleQ, timeoutQ, running>>

\* The idle timer of c expires and sends c on Server.idle.
IdleTimerFires(c) ==
    /\ idleArmed[c] /\ phase[c] \in Open
    /\ Len(idleQ) < EventCap
    /\ idleArmed' = [idleArmed EXCEPT ![c] = FALSE]
    /\ idleQ' = Append(idleQ, c)
    /\ UNCHANGED <<clientVars, byNick, db, chanVars, newConns, commands, timeoutQ,
                   quitArmed, awaitingPong, running>>

\* Client.Idle: send PING and start the quit timer.
\* Mutant: Idle sends the PING but never starts the quit timer.
HandleIdleNoQuitTimer ==
    /\ running
    /\ idleQ # <<>>
    /\ idleQ' = Tail(idleQ)
    /\ awaitingPong' = [awaitingPong EXCEPT ![Head(idleQ)] = TRUE]
    /\ UNCHANGED <<clientVars, byNick, db, chanVars, newConns, commands, timeoutQ,
                   idleArmed, quitArmed, running>>

HandleIdle ==
    /\ running
    /\ idleQ # <<>>
    /\ idleQ' = Tail(idleQ)
    /\ quitArmed' = [quitArmed EXCEPT ![Head(idleQ)] = TRUE]
    /\ awaitingPong' = [awaitingPong EXCEPT ![Head(idleQ)] = TRUE]
    /\ UNCHANGED <<clientVars, byNick, db, chanVars, newConns, commands, timeoutQ, idleArmed,
                   running>>

\* The quit timer of c expires and sends c on Server.timeout.
QuitTimerFires(c) ==
    /\ quitArmed[c] /\ phase[c] \in Open
    /\ Len(timeoutQ) < EventCap
    /\ quitArmed' = [quitArmed EXCEPT ![c] = FALSE]
    /\ timeoutQ' = Append(timeoutQ, c)
    /\ UNCHANGED <<clientVars, byNick, db, chanVars, newConns, commands, idleQ,
                   idleArmed, awaitingPong, running>>

\* client.Quit("connection timeout").
HandleTimeout ==
    /\ running
    /\ timeoutQ # <<>>
    /\ timeoutQ' = Tail(timeoutQ)
    /\ QuitClient(Head(timeoutQ))
    /\ UNCHANGED <<newConns, commands, idleQ, timerVars, running>>

\* A termination signal: Server.Shutdown notifies clients and Run exits.
Shutdown ==
    /\ running
    /\ running' = FALSE
    /\ UNCHANGED <<clientVars, byNick, db, chanVars, queueVars, timerVars>>

-----------------------------------------------------------------------------

\* NewServer and loadChannels: the stored channels exist, nobody is connected.
Init ==
    /\ phase = [c \in Client |-> "Unconnected"]
    /\ nick = [c \in Client |-> NoNick]
    /\ username = [c \in Client |-> FALSE]
    /\ operator = [c \in Client |-> FALSE]
    /\ byNick = [n \in LNick |-> NoClient]
    /\ db = {}
    /\ channels = Persistent
    /\ members = [ch \in Chan |-> {}]
    /\ chanops = [ch \in Chan |-> {}]
    /\ memberOf = [c \in Client |-> {}]
    /\ newConns = <<>>
    /\ commands = <<>>
    /\ idleQ = <<>>
    /\ timeoutQ = <<>>
    /\ idleArmed = [c \in Client |-> FALSE]
    /\ quitArmed = [c \in Client |-> FALSE]
    /\ awaitingPong = [c \in Client |-> FALSE]
    /\ running = TRUE

Next ==
    \/ \E c \in Client : Accept(c)
    \/ \E c \in Client : Connect(c)
    \/ \E c \in Client : \E cmd \in Input(c) : Submit(c, cmd)
    \/ ProcessCommand
    \/ \E c \in Client : IdleTimerFires(c)
    \/ HandleIdle
    \/ \E c \in Client : QuitTimerFires(c)
    \/ HandleTimeout
    \/ Shutdown

Spec == Init /\ [][Next]_vars

\* Run's select is fair among ready channels; Go timers fire once armed.
FairSpec ==
    /\ Spec
    /\ WF_vars(\E c \in Client : Connect(c))
    /\ WF_vars(ProcessCommand)
    /\ WF_vars(HandleIdle)
    /\ WF_vars(HandleTimeout)

\* Time passes: an armed timer eventually fires.  Its callback blocks on the
\* full event channel until Run drains it, and Go queues blocked senders in
\* order, so a timer that keeps trying does get through.
TimedSpec ==
    /\ FairSpec
    /\ \A c \in Client : SF_vars(IdleTimerFires(c)) /\ SF_vars(QuitTimerFires(c))

\* The nickname index seen as the abstract registry it implements.
Registry == INSTANCE NickRegistry WITH Key <- LNick, owner <- byNick

\* The clients' phases seen as the abstract lifecycle they follow.
Lifecycle == INSTANCE ClientLifecycle WITH FirstPhase <- InitPhase

-----------------------------------------------------------------------------
(* Properties.                                                             *)

TypeOK ==
    /\ phase \in [Client -> Phase]
    /\ nick \in [Client -> Nick \cup {NoNick}]
    /\ username \in [Client -> BOOLEAN]
    /\ operator \in [Client -> BOOLEAN]
    /\ byNick \in [LNick -> Client \cup {NoClient}]
    /\ db \subseteq Nick \X Client
    /\ channels \subseteq Chan
    /\ members \in [Chan -> SUBSET Client]
    /\ chanops \in [Chan -> SUBSET Client]
    /\ memberOf \in [Client -> SUBSET Chan]
    /\ newConns \in Seq(Client)
    /\ commands \in Seq(Command)
    /\ idleQ \in Seq(Client)
    /\ timeoutQ \in Seq(Client)
    /\ idleArmed \in [Client -> BOOLEAN]
    /\ quitArmed \in [Client -> BOOLEAN]
    /\ awaitingPong \in [Client -> BOOLEAN]
    /\ running \in BOOLEAN

\* The nickname index never points at a client under a key other than that
\* client's own lowercased nick (Remove-then-Add in ChangeNickname, the
\* mismatch guard in ClientLookupSet.Remove, Add's in-use guard).
IndexConsistent ==
    \A n \in LNick : byNick[n] # NoClient =>
        /\ nick[byNick[n]] \in Nick
        /\ Lower(nick[byNick[n]]) = n

\* No client in Authorization or Registration is indexed: tryRegister adds
\* a client only as it turns Normal, and NICK during registration only sets
\* client.nick.  Without this, a registering client's second NICK would leave
\* the index pointing at it under its old nick, and KILL could reach a client
\* that is still registering.  It does not say that every indexed client
\* registered: a NICK queued behind the PASS or timeout that quit a
\* registering client runs in the default branch and indexes the Terminated
\* client (quit_trace).
IndexedNormalOrTerminated ==
    \A n \in LNick : byNick[n] # NoClient =>
        phase[byNick[n]] \in {"Normal", "Terminated"}

\* Channel membership is bidirectional (spec 3, 8.2) and channel operators
\* are members: Join, Part, Kick, JOIN 0 and Quit update both sides.
MembershipConsistent ==
    /\ \A c \in Client, ch \in Chan : c \in members[ch] <=> ch \in memberOf[c]
    /\ \A ch \in Chan : chanops[ch] \subseteq members[ch]

\* The channel table holds exactly the stored channels and the channels that
\* have members: an emptied channel is deleted unless persistent (spec 8.3),
\* and a JOIN never leaves a member in a channel missing from the table.
ChannelTableExact ==
    channels = Persistent \cup {ch \in Chan : members[ch] # {}}

\* An index entry changes only when the client it names changes its nick or
\* quits: one client's QUIT or NICK never deletes another client's entry,
\* even when both carry the same nick (the mismatch guard of Remove).
IndexEntryStable ==
    [][\A n \in LNick :
         (byNick[n] # NoClient /\ byNick'[n] # byNick[n]) =>
            (nick'[byNick[n]] # nick[byNick[n]] \/ phase'[byNick[n]] = "Terminated")]_vars

\* A client whose QUIT is queued is eventually terminated, unless the server
\* shuts down first, even when the QUIT waits behind the other client's
\* commands and heartbeat events compete for Run: Server.commands is drained
\* in order and every branch of processCommand quits on QUIT (the default
\* branch also for a Terminated client); a KILL or timeout may come first.
QuitHonoured ==
    \A c \in Client :
        (\E i \in 1..Len(commands) : commands[i].client = c /\ commands[i].verb = "QUIT")
            ~> (phase[c] = "Terminated" \/ ~running)

\* ClientLookupSet implements the registry: every step of the server either
\* leaves the index alone or is one client's Add, Remove or nickname change
\* (Add refuses a key in use, Remove refuses another client's entry, and
\* ChangeNickname is Remove-then-Add in one event-loop step).
RegistrySpec == Registry!Spec

\* Every step of the server moves at most one client one step along its
\* lifecycle (spec 3): processCommand dispatches on the current phase, so a
\* Terminated client's queued commands, a KILL of a dead client or a late
\* timeout event never bring a client back, and no client skips a phase.
LifecycleSpec == Lifecycle!Spec


\* The step that terminates a client (QUIT, a failed PASS, a misplaced
\* command, KILL or a timeout) leaves it in no channel and under no index key
\* (spec 8.5 and 11: Quit removes the client from every channel and from the
\* index).  Quit parts only the channels in client.channels and removes only
\* the key of its current nick, so this rests on both being exact.
QuitErasesClient ==
    [][\A c \in Client :
         (phase[c] # "Terminated" /\ phase'[c] = "Terminated") =>
            /\ \A ch \in Chan : c \notin members'[ch]
            /\ \A n \in LNick : byNick'[n] # c]_vars

\* A command of c is waiting in Server.commands.
Queued(c) == \E i \in 1..Len(commands) : commands[i].client = c

\* A connected client that stops sending is eventually removed by the
\* heartbeat (spec 4.4 and 5: idle event, PING, timeout event, Quit), unless
\* it speaks again or the server stops.
SilentClientRemoved ==
    \A c \in Client :
        (running /\ phase[c] \in Open /\ ~Queued(c))
            ~> (phase[c] = "Terminated" \/ ~running \/ Queued(c))

\* ClientDB.FindAll for a mask that matches the user@host of client c (any
\* nick): the rows with c's userhost, each looked up again in byNick.
FindAllHost(c) == {Get(r[1]) : r \in {r \in db : r[2] = c}} \ {NoClient}

\* The table mirrors the index (spec 3): a row for exactly each indexed client, under
\* its current nick.  Add and Remove change byNick and the table together,
\* and ChangeNickname deletes under the old nick before inserting the new,
\* so a case-only change (alice -> Alice) is not refused as a duplicate.
DbMirrorsIndex ==
    db = {<<nick[byNick[k]], byNick[k]>> : k \in {k \in LNick : byNick[k] # NoClient}}

\* FindAll by a client's userhost returns that client and no other: a ban
\* or a WHO mask written for one user never selects another.
FindAllSound == \A c \in Client : FindAllHost(c) \subseteq {c}

\* A PONG that answers the server's PING keeps the client connected, in
\* whatever phase it arrives (spec 4.4: the client quits only if no PONG
\* comes; spec 7: outside Authorization a phase-inappropriate command is
\* answered with a numeric and the connection stays open).
PongKeepsClient ==
    [][ProcessCommand /\ Head(commands).verb = "PONG" /\ awaitingPong[Head(commands).client]
         => phase'[Head(commands).client] # "Terminated"]_vars

\* No two registered clients share a nickname up to case (spec 8.4).
UniqueNicknames ==
    \A c1, c2 \in Client :
        (c1 # c2 /\ phase[c1] = "Normal" /\ phase[c2] = "Normal") =>
            Lower(nick[c1]) # Lower(nick[c2])

\* After Quit(c), c is in no channel and in no index (spec 8.5).
QuitLeavesNoTrace ==
    \A c \in Client : phase[c] = "Terminated" =>
        /\ memberOf[c] = {}
        /\ \A n \in LNick : byNick[n] # c

\* A timeout quits only a client that has not been heard from since its PING
\* (spec 4.4: the client quits if no PONG arrives within T_timeout).
TimeoutOnlyIfSilent ==
    [][timeoutQ # <<>> /\ running /\ phase[Head(timeoutQ)] # "Terminated"
         => awaitingPong[Head(timeoutQ)]]_vars

=============================================================================
