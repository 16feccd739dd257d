------------------------ MODULE IrcServerIndexProofs ------------------------
(***************************************************************************)
(* The nickname index (ClientLookupSet) stays consistent with the clients'  *)
(* nicknames, for every value of the constants.  IndexConsistent alone is   *)
(* not inductive: a registering client's NICK rewrites client.nick without  *)
(* touching the index, which is harmless only because no registering       *)
(* client is indexed (IndexedNormalOrTerminated).                                  *)
(***************************************************************************)
EXTENDS IrcServerProofs

\* The index part of the inductive invariant.
IdxInv == IndexConsistent /\ IndexedNormalOrTerminated

\* Server.newConns holds distinct fresh connections, and Server.timeout only
\* clients that have connected.
ConnInv ==
    /\ \A i \in 1..Len(newConns) : phase[newConns[i]] = "Unconnected"
    /\ \A i, j \in 1..Len(newConns) : newConns[i] = newConns[j] => i = j
    /\ \A i \in 1..Len(timeoutQ) : phase[timeoutQ[i]] # "Unconnected"

\* The inductive invariant.
IInv == TypeOK /\ IdxInv /\ ConnInv

-----------------------------------------------------------------------------
(* ClientLookupSet.Remove under the client's current nick drops exactly the *)
(* entries that point at the client: there is at most one, at that key.     *)

LEMMA RemoveOwn ==
    ASSUME CoreOK, IndexConsistent, NEW c \in Client
    PROVE  \A m \in LNick :
              IndexRemove(byNick, c, nick[c])[m] =
                 IF byNick[m] = c THEN NoClient ELSE byNick[m]
<1>1. \A m \in LNick : byNick[m] = c => nick[c] \in Nick /\ Lower(nick[c]) = m
  BY ClientAssumption DEF IndexConsistent
<1>2. NoNick \notin Nick
  BY NickAssumption
<1>3. CASE nick[c] = NoNick
  BY <1>1, <1>2, <1>3 DEF IndexRemove
<1>4. CASE nick[c] \in Nick
  <2> DEFINE k == Lower(nick[c])
  <2>1. k \in LNick
    BY <1>4, LowerType
  <2>2. CASE byNick[k] = c
    <3>1. IndexRemove(byNick, c, nick[c]) = [byNick EXCEPT ![k] = NoClient]
      BY <1>2, <1>4, <2>2 DEF IndexRemove
    <3>2. \A m \in LNick : byNick[m] = c => m = k
      BY <1>1
    <3>3. QED
      BY <2>1, <2>2, <3>1, <3>2 DEF CoreOK
  <2>3. CASE byNick[k] # c
    <3>1. IndexRemove(byNick, c, nick[c]) = byNick
      BY <1>2, <1>4, <2>3 DEF IndexRemove
    <3>2. \A m \in LNick : byNick[m] # c
      BY <1>1, <2>3
    <3>3. QED
      BY <3>1, <3>2
  <2>4. QED
    BY <2>2, <2>3
<1>5. QED
  BY <1>3, <1>4 DEF CoreOK

\* Client.Quit: the quitting client's entry is gone, the others are intact.
LEMMA QuitClientIdx ==
    ASSUME CoreOK, IdxInv, NEW c \in Client, QuitClient(c)
    PROVE  IdxInv'
<1>1. \A m \in LNick : byNick'[m] = IF byNick[m] = c THEN NoClient ELSE byNick[m]
  BY RemoveOwn DEF QuitClient, IdxInv
<1>2. QED
  BY <1>1 DEF QuitClient, IdxInv, IndexConsistent, IndexedNormalOrTerminated, CoreOK

\* Client.ChangeNickname of a registered client to a nick that is free (or
\* its own under another case): the client ends up indexed under the new nick.
LEMMA ChangeNicknameIdx ==
    ASSUME CoreOK, IdxInv, NEW c \in Client, NEW n \in Nick,
           phase[c] \in {"Normal", "Terminated"},
           byNick[Lower(n)] \in {NoClient, c},
           ChangeNickname(c, n)
    PROVE  IdxInv'
<1> DEFINE r == IndexRemove(byNick, c, nick[c])
<1>1. \A m \in LNick : r[m] = IF byNick[m] = c THEN NoClient ELSE byNick[m]
  BY RemoveOwn DEF IdxInv
<1>2. Lower(n) \in LNick /\ n # NoNick
  BY LowerType, NickAssumption
<1>3. r[Lower(n)] = NoClient
  BY <1>1, <1>2
<1>4. byNick' = [r EXCEPT ![Lower(n)] = c]
  BY <1>2, <1>3 DEF ChangeNickname, IndexAdd
<1>5. r \in [LNick -> Client \cup {NoClient}]
  BY IndexRemoveType DEF CoreOK
<1>6. QED
  BY <1>1, <1>4, <1>5 DEF ChangeNickname, IdxInv, IndexConsistent,
                          IndexedNormalOrTerminated, CoreOK

\* Server.tryRegister for a client that no index entry points at: if it
\* turns Normal it is indexed under its (new) nick n, if that key is free.
LEMMA TryRegisterIdx ==
    ASSUME CoreOK, IdxInv, NEW c \in Client, NEW n \in Nick \cup {NoNick},
           NEW u \in BOOLEAN,
           \A m \in LNick : byNick[m] # c,
           nick' = [nick EXCEPT ![c] = n],
           TryRegister(c, n, u)
    PROVE  IdxInv'
<1>1. CASE n # NoNick /\ u
  <2>1. Lower(n) \in LNick
    BY <1>1, LowerType
  <2>2. QED
    BY <1>1, <2>1 DEF TryRegister, IndexAdd, IdxInv, IndexConsistent,
                      IndexedNormalOrTerminated, CoreOK
<1>2. CASE ~(n # NoNick /\ u)
  BY <1>2 DEF TryRegister, IdxInv, IndexConsistent, IndexedNormalOrTerminated, CoreOK
<1>3. QED
  BY <1>1, <1>2

\* A step that leaves phases, nicks and the index alone keeps IdxInv.
LEMMA FrozenIdx ==
    ASSUME IdxInv, UNCHANGED <<phase, nick, byNick, db>>
    PROVE  IdxInv'
BY DEF IdxInv, IndexConsistent, IndexedNormalOrTerminated

\* A client that has not registered has no index entry.
LEMMA NotIndexed ==
    ASSUME IndexedNormalOrTerminated, NEW c \in Client,
           phase[c] \notin {"Normal", "Terminated"}
    PROVE  \A m \in LNick : byNick[m] # c
BY ClientAssumption DEF IndexedNormalOrTerminated

-----------------------------------------------------------------------------
(* The handlers of processCommand.                                         *)

LEMMA PassAuthIdx ==
    ASSUME CoreOK, IdxInv, NEW c \in Client, NEW ok \in BOOLEAN,
           phase[c] = "Authorization", PassAuth(c, ok)
    PROVE  IdxInv'
<1>1. CASE ~ok /\ QuitClient(c)
  BY <1>1, QuitClientIdx
<1>2. CASE ok /\ phase' = [phase EXCEPT ![c] = "Registration"]
              /\ UNCHANGED <<nick, byNick, db>>
  <2>1. \A m \in LNick : byNick[m] # c
    BY NotIndexed DEF IdxInv
  <2>2. QED
    BY <1>2, <2>1 DEF IdxInv, IndexConsistent, IndexedNormalOrTerminated, CoreOK
<1>3. QED
  BY <1>1, <1>2 DEF PassAuth

LEMMA NickRegIdx ==
    ASSUME CoreOK, IdxInv, NEW c \in Client, NEW n,
           phase[c] = "Registration", NickReg(c, n)
    PROVE  IdxInv'
<1>1. CASE NoChange
  BY <1>1, FrozenIdx DEF NoChange, clientVars
<1>2. CASE /\ n \in Nick
           /\ nick' = [nick EXCEPT ![c] = n]
           /\ TryRegister(c, n, username[c])
  <2>1. \A m \in LNick : byNick[m] # c
    BY NotIndexed DEF IdxInv
  <2>2. username[c] \in BOOLEAN
    BY DEF CoreOK
  <2>3. QED
    BY <1>2, <2>1, <2>2, TryRegisterIdx
<1>3. QED
  BY <1>1, <1>2 DEF NickReg

LEMMA UserRegIdx ==
    ASSUME CoreOK, IdxInv, NEW c \in Client,
           phase[c] = "Registration", UserReg(c)
    PROVE  IdxInv'
<1>1. nick' = [nick EXCEPT ![c] = nick[c]]
  BY DEF UserReg, CoreOK
<1>2. \A m \in LNick : byNick[m] # c
  BY NotIndexed DEF IdxInv
<1>3. nick[c] \in Nick \cup {NoNick}
  BY DEF CoreOK
<1>4. QED
  BY <1>1, <1>2, <1>3, TryRegisterIdx DEF UserReg

LEMMA NickNormalIdx ==
    ASSUME CoreOK, IdxInv, NEW c \in Client, NEW n,
           phase[c] \in {"Normal", "Terminated"}, NickNormal(c, n)
    PROVE  IdxInv'
<1>1. CASE NoChange
  BY <1>1, FrozenIdx DEF NoChange, clientVars
<1>2. CASE n \in Nick /\ Get(n) \in {NoClient, c} /\ ChangeNickname(c, n)
  BY <1>2, ChangeNicknameIdx DEF Get
<1>3. QED
  BY <1>1, <1>2 DEF NickNormal

LEMMA KillNormalIdx ==
    ASSUME CoreOK, IdxInv, NEW c \in Client, NEW n, KillNormal(c, n)
    PROVE  IdxInv'
<1>1. CASE NoChange
  BY <1>1, FrozenIdx DEF NoChange, clientVars
<1>2. CASE Get(n) # NoClient /\ QuitClient(Get(n))
  BY <1>2, GetType, QuitClientIdx DEF CoreOK
<1>3. QED
  BY <1>1, <1>2 DEF KillNormal

\* JOIN, PART, KICK, OPER and MODE leave phases, nicks and the index alone.
LEMMA OtherNormalFrozen ==
    ASSUME NEW c, NEW n, NEW ch, NEW ok,
           \/ JoinNormal(c, ch) \/ PartNormal(c, ch) \/ KickNormal(c, n, ch)
           \/ OperNormal(c, ok) \/ ModeNormal(c, n, ok)
    PROVE  UNCHANGED <<phase, nick, byNick, db>>
BY DEF JoinNormal, PartNormal, KickNormal, OperNormal, ModeNormal, NoChange,
       clientVars

-----------------------------------------------------------------------------
(* Dispatch on the phase.                                                  *)

LEMMA AuthorizationCmdIdx ==
    ASSUME CoreOK, IdxInv, NEW cmd \in Command, AuthorizationCmd(cmd)
    PROVE  IdxInv'
<1>1. cmd.client \in Client /\ cmd.ok \in BOOLEAN
  BY DEF Command
<1>2. QED
  BY <1>1, QuitClientIdx, PassAuthIdx DEF AuthorizationCmd

LEMMA RegistrationCmdIdx ==
    ASSUME CoreOK, IdxInv, NEW cmd \in Command, RegistrationCmd(cmd)
    PROVE  IdxInv'
<1>1. cmd.client \in Client
  BY DEF Command
<1>2. QED
  BY <1>1, QuitClientIdx, NickRegIdx, UserRegIdx DEF RegistrationCmd

LEMMA NormalCmdIdx ==
    ASSUME CoreOK, IdxInv, NEW cmd \in Command, NormalCmd(cmd)
    PROVE  IdxInv'
<1> DEFINE c == cmd.client
<1>1. c \in Client /\ phase[c] \in {"Normal", "Terminated"}
  BY DEF Command, NormalCmd
<1>2. CASE cmd.verb \in {"PASS", "USER", "PONG"} /\ NoChange
  BY <1>2, FrozenIdx DEF NoChange, clientVars
<1>3. CASE cmd.verb = "NICK" /\ NickNormal(c, cmd.nick)
  BY <1>1, <1>3, NickNormalIdx
<1>4. CASE cmd.verb = "QUIT" /\ QuitClient(c)
  BY <1>1, <1>4, QuitClientIdx
<1>5. CASE cmd.verb = "KILL" /\ KillNormal(c, cmd.nick)
  BY <1>1, <1>5, KillNormalIdx
<1>6. CASE \/ JoinNormal(c, cmd.chan) \/ PartNormal(c, cmd.chan)
           \/ KickNormal(c, cmd.nick, cmd.chan)
           \/ OperNormal(c, cmd.ok) \/ ModeNormal(c, cmd.nick, cmd.ok)
  BY <1>6, OtherNormalFrozen, FrozenIdx
<1>7. QED
  BY <1>2, <1>3, <1>4, <1>5, <1>6 DEF NormalCmd

-----------------------------------------------------------------------------
(* Server.Run.                                                             *)

LEMMA NextIdx == IInv /\ [Next]_vars => IdxInv'
<1> SUFFICES ASSUME TypeOK, IdxInv, ConnInv, [Next]_vars PROVE IdxInv'
  BY DEF IInv
<1>1. CoreOK /\ QueueOK
  BY TypeOKSplit
<1>2. CASE \E c \in Client : Connect(c)
  <2>1. PICK c \in Client : Connect(c)
    BY <1>2
  <2>2. phase[c] = "Unconnected"
    BY <1>1, <2>1 DEF Connect, ConnInv, QueueOK
  <2>3. \A m \in LNick : byNick[m] # c
    BY <2>2, NotIndexed DEF IdxInv
  <2>4. QED
    BY <1>1, <2>1, <2>3 DEF Connect, IdxInv, IndexConsistent,
                              IndexedNormalOrTerminated, CoreOK
<1>3. CASE ProcessCommand
  <2>1. Head(commands) \in Command
    BY <1>1, <1>3, HeadTailProperties DEF ProcessCommand, QueueOK
  <2>2. QED
    BY <1>1, <1>3, <2>1, AuthorizationCmdIdx, RegistrationCmdIdx, NormalCmdIdx
    DEF ProcessCommand
<1>4. CASE HandleTimeout
  <2>1. Head(timeoutQ) \in Client
    BY <1>1, <1>4, HeadTailProperties DEF HandleTimeout, QueueOK
  <2>2. QED
    BY <1>1, <1>4, <2>1, QuitClientIdx DEF HandleTimeout
<1>5. CASE \/ \E c \in Client : \E cmd \in Input(c) : Submit(c, cmd)
           \/ \E c \in Client : Accept(c)
           \/ \E c \in Client : IdleTimerFires(c) \/ QuitTimerFires(c)
           \/ HandleIdle \/ Shutdown \/ UNCHANGED vars
  BY <1>5, FrozenIdx DEF Accept, Submit, IdleTimerFires, QuitTimerFires, HandleIdle,
                         Shutdown, vars, clientVars
<1>6. QED
  BY <1>2, <1>3, <1>4, <1>5 DEF Next

-----------------------------------------------------------------------------
(* Server.newConns and Server.timeout.  Connect takes the head of newConns  *)
(* without looking at the client's phase: it is a fresh connection because  *)
(* a listener accepts each connection once and nothing else moves a client  *)
(* out of Unconnected.  HandleTimeout quits a client that has connected.    *)

\* A step that neither connects a client nor disconnects one.
UFrozen == \A d \in Client : (phase'[d] = "Unconnected") <=> (phase[d] = "Unconnected")

LEMMA SetPhaseUF ==
    ASSUME CoreOK, NEW c \in Client, phase[c] # "Unconnected",
           NEW v, v # "Unconnected", phase' = [phase EXCEPT ![c] = v]
    PROVE  UFrozen
BY DEF CoreOK, UFrozen

LEMMA QuitClientUF ==
    ASSUME CoreOK, NEW c \in Client, phase[c] # "Unconnected", QuitClient(c)
    PROVE  UFrozen
BY SetPhaseUF DEF QuitClient

LEMMA TryRegisterUF ==
    ASSUME CoreOK, NEW c \in Client, phase[c] # "Unconnected", NEW n, NEW u,
           TryRegister(c, n, u)
    PROVE  UFrozen
<1>1. CASE n # NoNick /\ u
  BY <1>1, SetPhaseUF DEF TryRegister
<1>2. CASE ~(n # NoNick /\ u)
  BY <1>2 DEF TryRegister, UFrozen
<1>3. QED
  BY <1>1, <1>2

\* A client found by Get has registered.
LEMMA GetRegistered ==
    ASSUME CoreOK, IndexedNormalOrTerminated, NEW n, Get(n) # NoClient
    PROVE  Get(n) \in Client /\ phase[Get(n)] \in {"Normal", "Terminated"}
BY LowerType DEF Get, IndexedNormalOrTerminated, CoreOK

LEMMA ProcessCommandUF ==
    ASSUME CoreOK, QueueOK, IdxInv, ProcessCommand
    PROVE  UFrozen
<1> DEFINE cmd == Head(commands)
<1> DEFINE c == cmd.client
<1>1. cmd \in Command /\ c \in Client
  <2>1. cmd \in Command
    BY HeadTailProperties DEF ProcessCommand, QueueOK
  <2>2. QED
    BY <2>1 DEF Command
<1>2. CASE AuthorizationCmd(cmd)
  <2>1. phase[c] # "Unconnected"
    BY <1>2 DEF AuthorizationCmd
  <2>2. QED
    BY <1>1, <1>2, <2>1, QuitClientUF, SetPhaseUF DEF AuthorizationCmd, PassAuth
<1>3. CASE RegistrationCmd(cmd)
  <2>1. phase[c] # "Unconnected"
    BY <1>3 DEF RegistrationCmd
  <2>2. CASE NoChange
    BY <2>2 DEF NoChange, clientVars, UFrozen
  <2>3. CASE QuitClient(c)
    BY <1>1, <2>1, <2>3, QuitClientUF
  <2>4. CASE cmd.verb = "NICK" /\ NickReg(c, cmd.nick)
    BY <1>1, <2>1, <2>2, <2>4, TryRegisterUF DEF NickReg
  <2>5. CASE cmd.verb = "USER" /\ UserReg(c)
    BY <1>1, <2>1, <2>5, TryRegisterUF DEF UserReg
  <2>6. QED
    BY <1>3, <2>3, <2>4, <2>5 DEF RegistrationCmd
<1>4. CASE NormalCmd(cmd)
  <2>1. phase[c] # "Unconnected"
    BY <1>4 DEF NormalCmd
  <2>2. CASE UNCHANGED phase
    BY <2>2 DEF UFrozen
  <2>3. CASE cmd.verb = "QUIT" /\ QuitClient(c)
    BY <1>1, <2>1, <2>3, QuitClientUF
  <2>4. CASE cmd.verb = "KILL" /\ KillNormal(c, cmd.nick)
    <3>1. CASE Get(cmd.nick) # NoClient /\ QuitClient(Get(cmd.nick))
      BY <3>1, GetRegistered, QuitClientUF DEF IdxInv
    <3>2. QED
      BY <2>2, <2>4, <3>1 DEF KillNormal, NoChange, clientVars
  <2>5. CASE cmd.verb = "NICK" /\ NickNormal(c, cmd.nick)
    BY <2>2, <2>5 DEF NickNormal, NoChange, clientVars, ChangeNickname
  <2>6. CASE \/ cmd.verb \in {"PASS", "USER", "PONG"} /\ NoChange
             \/ cmd.verb = "JOIN" /\ JoinNormal(c, cmd.chan)
             \/ cmd.verb = "PART" /\ PartNormal(c, cmd.chan)
             \/ cmd.verb = "KICK" /\ KickNormal(c, cmd.nick, cmd.chan)
             \/ cmd.verb = "OPER" /\ OperNormal(c, cmd.ok)
             \/ cmd.verb = "MODE" /\ ModeNormal(c, cmd.nick, cmd.ok)
    BY <2>2, <2>6 DEF NoChange, clientVars, JoinNormal, PartNormal, KickNormal,
                      OperNormal, ModeNormal
  <2>7. QED
    BY <1>4, <2>3, <2>4, <2>5, <2>6 DEF NormalCmd
<1>5. QED
  BY <1>2, <1>3, <1>4 DEF ProcessCommand

LEMMA NextConn == IInv /\ ConnInv /\ [Next]_vars => ConnInv'
<1> SUFFICES ASSUME TypeOK, IdxInv, ConnInv, [Next]_vars PROVE ConnInv'
  BY DEF IInv
<1>1. CoreOK /\ QueueOK
  BY TypeOKSplit
<1>2. CASE \E c \in Client : Accept(c)
  <2>1. PICK c \in Client : Accept(c)
    BY <1>2
  <2>2. /\ Len(newConns') = Len(newConns) + 1
        /\ \A i \in 1..Len(newConns) : newConns'[i] = newConns[i]
        /\ newConns'[Len(newConns) + 1] = c
    BY <1>1, <2>1, AppendProperties DEF Accept, QueueOK
  <2>3. Len(newConns) \in Nat
    BY <1>1 DEF QueueOK
  <2>4. \A i \in 1..Len(newConns') : phase'[newConns'[i]] = "Unconnected"
    BY <2>1, <2>2, <2>3 DEF Accept, ConnInv, clientVars
  <2>5. \A i, j \in 1..Len(newConns') : newConns'[i] = newConns'[j] => i = j
    BY <2>1, <2>2, <2>3 DEF Accept, ConnInv
  <2>6. \A i \in 1..Len(timeoutQ') : phase'[timeoutQ'[i]] # "Unconnected"
    BY <2>1 DEF Accept, ConnInv, clientVars
  <2>7. QED
    BY <2>4, <2>5, <2>6 DEF ConnInv
<1>3. CASE \E c \in Client : Connect(c)
  <2>1. PICK c \in Client : Connect(c)
    BY <1>3
  <2>2. /\ c = newConns[1]
        /\ Len(newConns') = Len(newConns) - 1
        /\ \A i \in 1..Len(newConns') : newConns'[i] = newConns[i + 1]
    BY <1>1, <2>1, HeadTailProperties DEF Connect, QueueOK
  <2>3. InitPhase # "Unconnected"
    BY ConfigAssumption DEF InitPhase
  <2>4. \A i \in 1..Len(newConns') : newConns'[i] # c
    BY <1>1, <2>2 DEF ConnInv, QueueOK
  <2>5. QED
    BY <1>1, <2>1, <2>2, <2>3, <2>4 DEF Connect, ConnInv, QueueOK, CoreOK
<1>4. CASE ProcessCommand
  <2>1. UFrozen
    BY <1>1, <1>4, ProcessCommandUF
  <2>2. newConns' = newConns /\ timeoutQ' = timeoutQ
    BY <1>4 DEF ProcessCommand
  <2>3. /\ \A i \in 1..Len(newConns) : newConns[i] \in Client
        /\ \A i \in 1..Len(timeoutQ) : timeoutQ[i] \in Client
    BY <1>1 DEF QueueOK
  <2>4. QED
    BY <2>1, <2>2, <2>3 DEF ConnInv, UFrozen
<1>5. CASE \E c \in Client : QuitTimerFires(c)
  <2>1. PICK c \in Client : QuitTimerFires(c)
    BY <1>5
  <2>2. /\ Len(timeoutQ') = Len(timeoutQ) + 1
        /\ \A i \in 1..Len(timeoutQ) : timeoutQ'[i] = timeoutQ[i]
        /\ timeoutQ'[Len(timeoutQ) + 1] = c
    BY <1>1, <2>1, AppendProperties DEF QuitTimerFires, QueueOK
  <2>3. Len(timeoutQ) \in Nat /\ phase[c] # "Unconnected"
    BY <1>1, <2>1 DEF QueueOK, QuitTimerFires, Open
  <2>4. \A i \in 1..Len(timeoutQ') : phase'[timeoutQ'[i]] # "Unconnected"
    BY <2>1, <2>2, <2>3 DEF QuitTimerFires, ConnInv, clientVars
  <2>5. QED
    BY <2>1, <2>4 DEF QuitTimerFires, ConnInv, clientVars
<1>6. CASE HandleTimeout
  <2>1. /\ Head(timeoutQ) = timeoutQ[1] /\ Head(timeoutQ) \in Client
        /\ Len(timeoutQ') = Len(timeoutQ) - 1
        /\ \A i \in 1..Len(timeoutQ') : timeoutQ'[i] = timeoutQ[i + 1]
    BY <1>1, <1>6, HeadTailProperties DEF HandleTimeout, QueueOK
  <2>2. phase[Head(timeoutQ)] # "Unconnected"
    BY <1>1, <1>6, <2>1 DEF HandleTimeout, ConnInv, QueueOK
  <2>3. UFrozen
    BY <1>1, <1>6, <2>1, <2>2, QuitClientUF DEF HandleTimeout
  <2>4. /\ \A i \in 1..Len(newConns) : newConns[i] \in Client
        /\ \A i \in 1..Len(timeoutQ) : timeoutQ[i] \in Client
        /\ Len(timeoutQ) \in Nat
    BY <1>1 DEF QueueOK
  <2>5. \A i \in 1..Len(timeoutQ') : phase'[timeoutQ'[i]] # "Unconnected"
    BY <2>1, <2>3, <2>4 DEF ConnInv, UFrozen
  <2>6. QED
    BY <1>6, <2>3, <2>4, <2>5 DEF HandleTimeout, ConnInv, UFrozen
<1>7. CASE \/ \E c \in Client : \E cmd \in Input(c) : Submit(c, cmd)
           \/ \E c \in Client : IdleTimerFires(c)
           \/ HandleIdle \/ Shutdown \/ UNCHANGED vars
  BY <1>7 DEF Submit, IdleTimerFires, HandleIdle, Shutdown, vars, clientVars,
              queueVars, ConnInv
<1>8. QED
  BY <1>2, <1>3, <1>4, <1>5, <1>6, <1>7 DEF Next

LEMMA InitIdx == Init => IdxInv
BY DEF Init, IdxInv, IndexConsistent, IndexedNormalOrTerminated

\* IInv holds in every reachable state.
LEMMA IInvInvariant == Spec => []IInv
<1>1. Init => IInv
  BY InitType, InitIdx DEF IInv, Init, ConnInv
<1>2. IInv /\ [Next]_vars => IInv'
  BY NextType, NextIdx, NextConn DEF IInv
<1>3. QED
  BY <1>1, <1>2, PTL DEF Spec

\* The nickname index stays consistent with the clients' nicknames in every
\* reachable state: ClientLookupSet.Get(n) returns, if anyone, a client whose
\* current nick lowercases to n (Remove's ownership check, Add's in-use check,
\* and ChangeNickname's Remove-then-Add keep it so).
THEOREM IndexCorrect == Spec => []IndexConsistent
BY IInvInvariant, PTL DEF IInv, IdxInv

\* No client in Authorization or Registration is ever indexed: an indexed
\* client is Normal (tryRegister indexes it as it turns Normal) or
\* Terminated (it was quit, possibly before registering, and a queued NICK
\* then indexed it in the default branch).
THEOREM NoRegisteringClientIndexed == Spec => []IndexedNormalOrTerminated
BY IInvInvariant, PTL DEF IInv, IdxInv

-----------------------------------------------------------------------------
(* Index entries are stable: the guards of Add and Remove alone keep one    *)
(* client's step from changing another client's entry.                     *)

\* The step IndexEntryStable constrains.
StableStep ==
    \A n \in LNick :
        (byNick[n] # NoClient /\ byNick'[n] # byNick[n]) =>
            (nick'[byNick[n]] # nick[byNick[n]] \/ phase'[byNick[n]] = "Terminated")

\* Remove drops only the remover's own entry.
LEMMA RemoveKeepsOthers ==
    ASSUME NEW idx \in [LNick -> Client \cup {NoClient}], NEW c, NEW m,
           NEW k \in LNick, idx[k] # c
    PROVE  IndexRemove(idx, c, m)[k] = idx[k]
BY DEF IndexRemove

\* Add never overwrites a held key.
LEMMA AddKeepsHeld ==
    ASSUME NEW idx \in [LNick -> Client \cup {NoClient}], NEW c,
           NEW n \in Nick \cup {NoNick}, NEW k \in LNick, idx[k] # NoClient
    PROVE  IndexAdd(idx, c, n)[k] = idx[k]
BY LowerType DEF IndexAdd

\* A step in which only c's entries can change from one client to another,
\* and c's nick changes or c quits, is a stable step.
LEMMA OwnStepStable ==
    ASSUME NEW c \in Client,
           \A k \in LNick : byNick[k] \notin {NoClient, c} => byNick'[k] = byNick[k],
           nick'[c] # nick[c] \/ phase'[c] = "Terminated"
    PROVE  StableStep
BY DEF StableStep

LEMMA QuitClientStable ==
    ASSUME CoreOK, NEW c \in Client, QuitClient(c)
    PROVE  StableStep
<1>1. \A k \in LNick : byNick[k] \notin {NoClient, c} => byNick'[k] = byNick[k]
  BY RemoveKeepsOthers DEF QuitClient, CoreOK
<1>2. phase'[c] = "Terminated"
  BY DEF QuitClient, CoreOK
<1>3. QED
  BY <1>1, <1>2, OwnStepStable

LEMMA ChangeNicknameStable ==
    ASSUME CoreOK, NEW c \in Client, NEW n \in Nick, n # nick[c], ChangeNickname(c, n)
    PROVE  StableStep
<1> DEFINE idx1 == IndexRemove(byNick, c, nick[c])
<1>1. idx1 \in [LNick -> Client \cup {NoClient}]
  BY IndexRemoveType DEF CoreOK
<1>2. \A k \in LNick : byNick[k] \notin {NoClient, c} => idx1[k] = byNick[k]
  BY RemoveKeepsOthers DEF CoreOK
<1>3. \A k \in LNick : byNick[k] \notin {NoClient, c} => byNick'[k] = byNick[k]
  BY <1>1, <1>2, AddKeepsHeld DEF ChangeNickname
<1>4. nick'[c] # nick[c]
  BY DEF ChangeNickname, CoreOK
<1>5. QED
  BY <1>3, <1>4, OwnStepStable

LEMMA TryRegisterStable ==
    ASSUME CoreOK, NEW c \in Client, NEW n \in Nick \cup {NoNick}, NEW u,
           TryRegister(c, n, u)
    PROVE  StableStep
BY AddKeepsHeld DEF TryRegister, StableStep, CoreOK

LEMMA FrozenStable == UNCHANGED byNick => StableStep
BY DEF StableStep

LEMMA AuthorizationCmdStable ==
    ASSUME CoreOK, NEW cmd \in Command, AuthorizationCmd(cmd)
    PROVE  StableStep
<1>1. cmd.client \in Client
  BY DEF Command
<1>2. QED
  BY <1>1, QuitClientStable, FrozenStable DEF AuthorizationCmd, PassAuth

LEMMA RegistrationCmdStable ==
    ASSUME CoreOK, NEW cmd \in Command, RegistrationCmd(cmd)
    PROVE  StableStep
<1> DEFINE c == cmd.client
<1>1. c \in Client /\ nick[c] \in Nick \cup {NoNick}
  BY DEF Command, CoreOK
<1>2. CASE cmd.verb = "NICK" /\ NickReg(c, cmd.nick)
  BY <1>1, <1>2, TryRegisterStable, FrozenStable DEF NickReg, NoChange
<1>3. CASE cmd.verb = "USER" /\ UserReg(c)
  BY <1>1, <1>3, TryRegisterStable DEF UserReg
<1>4. CASE QuitClient(c)
  BY <1>1, <1>4, QuitClientStable
<1>5. QED
  BY <1>2, <1>3, <1>4 DEF RegistrationCmd

LEMMA NormalCmdStable ==
    ASSUME CoreOK, NEW cmd \in Command, NormalCmd(cmd)
    PROVE  StableStep
<1> DEFINE c == cmd.client
<1>1. c \in Client
  BY DEF Command
<1>2. CASE cmd.verb \in {"PASS", "USER", "PONG"} /\ NoChange
  BY <1>2, FrozenStable DEF NoChange
<1>3. CASE cmd.verb = "NICK" /\ NickNormal(c, cmd.nick)
  BY <1>1, <1>3, ChangeNicknameStable, FrozenStable DEF NickNormal, NoChange
<1>4. CASE cmd.verb = "QUIT" /\ QuitClient(c)
  BY <1>1, <1>4, QuitClientStable
<1>5. CASE cmd.verb = "KILL" /\ KillNormal(c, cmd.nick)
  BY <1>5, GetType, QuitClientStable, FrozenStable DEF KillNormal, NoChange, CoreOK
<1>6. CASE \/ JoinNormal(c, cmd.chan) \/ PartNormal(c, cmd.chan)
           \/ KickNormal(c, cmd.nick, cmd.chan)
           \/ OperNormal(c, cmd.ok) \/ ModeNormal(c, cmd.nick, cmd.ok)
  BY <1>6, OtherNormalFrozen, FrozenStable
<1>7. QED
  BY <1>2, <1>3, <1>4, <1>5, <1>6 DEF NormalCmd

LEMMA NextStable == TypeOK /\ [Next]_vars => [StableStep]_vars
<1> SUFFICES ASSUME TypeOK, [Next]_vars PROVE StableStep
  OBVIOUS
<1>1. CoreOK /\ QueueOK
  BY TypeOKSplit
<1>2. CASE ProcessCommand
  <2>1. Head(commands) \in Command
    BY <1>1, <1>2, HeadTailProperties DEF ProcessCommand, QueueOK
  <2>2. QED
    BY <1>1, <1>2, <2>1, AuthorizationCmdStable, RegistrationCmdStable,
       NormalCmdStable DEF ProcessCommand
<1>3. CASE HandleTimeout
  <2>1. Head(timeoutQ) \in Client
    BY <1>1, <1>3, HeadTailProperties DEF HandleTimeout, QueueOK
  <2>2. QED
    BY <1>1, <1>3, <2>1, QuitClientStable DEF HandleTimeout
<1>4. CASE \/ \E c \in Client : Connect(c)
           \/ \E c \in Client : \E cmd \in Input(c) : Submit(c, cmd)
           \/ \E c \in Client : Accept(c)
           \/ \E c \in Client : IdleTimerFires(c) \/ QuitTimerFires(c)
           \/ HandleIdle \/ Shutdown \/ UNCHANGED vars
  BY <1>4, FrozenStable DEF Accept, Connect, Submit, IdleTimerFires, QuitTimerFires,
                            HandleIdle, Shutdown, vars
<1>5. QED
  BY <1>2, <1>3, <1>4 DEF Next

\* One client's QUIT, NICK or registration never deletes or reassigns another
\* client's index entry, for every value of the constants: Remove checks the
\* entry is the caller's own, and Add refuses a key in use.
THEOREM EntryStable == Spec => IndexEntryStable
<1>1. [][Next]_vars /\ []TypeOK => [][StableStep]_vars
  BY NextStable, PTL
<1>2. QED
  BY <1>1, TypeCorrect, PTL DEF Spec, IndexEntryStable, StableStep

=============================================================================
