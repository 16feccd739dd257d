--------------------------- MODULE IrcServerProofs ---------------------------
(***************************************************************************)
(* Proofs about the IrcServer event engine, for every value of the        *)
(* constants that satisfies the module's assumptions.                      *)
(***************************************************************************)
EXTENDS IrcServer, SequenceTheorems, TLAPS

\* The part of TypeOK that the command handlers change.
CoreOK ==
    /\ phase \in [Client -> Phase]
    /\ nick \in [Client -> Nick \cup {NoNick}]
    /\ username \in [Client -> BOOLEAN]
    /\ operator \in [Client -> BOOLEAN]
    /\ byNick \in [LNick -> Client \cup {NoClient}]
    /\ db \subseteq Nick \X Client
    /\ channels \subseteq Chan
    /\ members \in [Chan -> SUBSET Client]
    /\ chanops \in [Chan -> SUBSET Client]
    /\ memberOf \in [Client -> SUBSET Chan]

\* The event channels and the timers.
QueueOK ==
    /\ newConns \in Seq(Client)
    /\ commands \in Seq(Command)
    /\ idleQ \in Seq(Client)
    /\ timeoutQ \in Seq(Client)

TimerOK ==
    /\ idleArmed \in [Client -> BOOLEAN]
    /\ quitArmed \in [Client -> BOOLEAN]
    /\ awaitingPong \in [Client -> BOOLEAN]

LEMMA TypeOKSplit == TypeOK <=> CoreOK /\ QueueOK /\ TimerOK /\ running \in BOOLEAN
BY DEF TypeOK, CoreOK, QueueOK, TimerOK

-----------------------------------------------------------------------------
(* The nickname index helpers keep the index a map from LNick.             *)

LEMMA LowerType == \A n \in Nick : Lower(n) \in LNick
BY DEF LNick

LEMMA GetType ==
    ASSUME byNick \in [LNick -> Client \cup {NoClient}], NEW n
    PROVE  Get(n) \in Client \cup {NoClient}
BY LowerType DEF Get

LEMMA IndexAddType ==
    ASSUME NEW idx \in [LNick -> Client \cup {NoClient}], NEW c \in Client,
           NEW n \in Nick \cup {NoNick}
    PROVE  IndexAdd(idx, c, n) \in [LNick -> Client \cup {NoClient}]
BY LowerType DEF IndexAdd

LEMMA IndexRemoveType ==
    ASSUME NEW idx \in [LNick -> Client \cup {NoClient}], NEW c \in Client,
           NEW n \in Nick \cup {NoNick}
    PROVE  IndexRemove(idx, c, n) \in [LNick -> Client \cup {NoClient}]
BY LowerType DEF IndexRemove

\* ClientDB statements keep the table a set of <<nickname, client>> rows.
LEMMA DbAfterAddType ==
    ASSUME NEW d \in SUBSET (Nick \X Client), NEW idx, NEW c \in Client,
           NEW n \in Nick \cup {NoNick}
    PROVE  DbAfterAdd(idx, d, c, n) \subseteq SUBSET (Nick \X Client)
BY DEF DbAfterAdd, DbExec, DbInsert

LEMMA DbAfterRemoveType ==
    ASSUME NEW d \in SUBSET (Nick \X Client), NEW idx, NEW c, NEW n
    PROVE  DbAfterRemove(idx, d, c, n) \subseteq SUBSET (Nick \X Client)
BY DEF DbAfterRemove, DbExec, DbDelete

-----------------------------------------------------------------------------
(* The Client and Channel operations preserve CoreOK.                      *)

LEMMA LeaveType ==
    ASSUME CoreOK, NEW c \in Client, NEW S \in SUBSET Chan, Leave(c, S)
    PROVE  /\ channels' \subseteq Chan
           /\ members' \in [Chan -> SUBSET Client]
           /\ chanops' \in [Chan -> SUBSET Client]
           /\ memberOf' \in [Client -> SUBSET Chan]
BY DEF Leave, CoreOK

LEMMA QuitClientType ==
    ASSUME CoreOK, NEW c \in Client, QuitClient(c)
    PROVE  CoreOK'
<1>1. Leave(c, memberOf[c]) /\ memberOf[c] \in SUBSET Chan
  BY DEF QuitClient, CoreOK
<1>2. byNick' \in [LNick -> Client \cup {NoClient}]
  BY IndexRemoveType DEF QuitClient, CoreOK
<1>3. db' \subseteq Nick \X Client
  BY DbAfterRemoveType DEF QuitClient, CoreOK
<1>4. QED
  BY <1>1, <1>2, <1>3, LeaveType DEF QuitClient, CoreOK, Phase

LEMMA ChangeNicknameType ==
    ASSUME CoreOK, NEW c \in Client, NEW n \in Nick, ChangeNickname(c, n)
    PROVE  CoreOK'
<1>1. IndexRemove(byNick, c, nick[c]) \in [LNick -> Client \cup {NoClient}]
  BY IndexRemoveType DEF CoreOK
<1>2. byNick' \in [LNick -> Client \cup {NoClient}]
  BY <1>1, IndexAddType DEF ChangeNickname
<1>3. db' \subseteq Nick \X Client
  <2>1. PICK d \in DbAfterRemove(byNick, db, c, nick[c]) :
          db' \in DbAfterAdd(IndexRemove(byNick, c, nick[c]), d, c, n)
    BY DEF ChangeNickname
  <2>2. d \subseteq Nick \X Client
    BY DbAfterRemoveType DEF CoreOK
  <2>3. QED
    BY <2>1, <2>2, DbAfterAddType
<1>4. QED
  BY <1>2, <1>3 DEF ChangeNickname, CoreOK, chanVars

LEMMA JoinType ==
    ASSUME CoreOK, NEW c \in Client, NEW ch \in Chan, Join(c, ch)
    PROVE  /\ channels' \subseteq Chan
           /\ members' \in [Chan -> SUBSET Client]
           /\ chanops' \in [Chan -> SUBSET Client]
           /\ memberOf' \in [Client -> SUBSET Chan]
BY DEF Join, CoreOK

LEMMA TryRegisterType ==
    ASSUME CoreOK, NEW c \in Client, NEW n \in Nick \cup {NoNick}, NEW u,
           TryRegister(c, n, u)
    PROVE  /\ phase' \in [Client -> Phase]
           /\ byNick' \in [LNick -> Client \cup {NoClient}]
           /\ db' \subseteq Nick \X Client
<1>1. CASE n # NoNick /\ u
  <2>1. IndexAdd(byNick, c, n) \in [LNick -> Client \cup {NoClient}]
    BY IndexAddType DEF CoreOK
  <2>2. db' \subseteq Nick \X Client
    BY <1>1, DbAfterAddType DEF TryRegister, CoreOK
  <2>3. QED
    BY <1>1, <2>1, <2>2 DEF TryRegister, CoreOK, Phase
<1>2. CASE ~(n # NoNick /\ u)
  BY <1>2 DEF TryRegister, CoreOK
<1>3. QED
  BY <1>1, <1>2

LEMMA NoChangeType == CoreOK /\ NoChange => CoreOK'
BY DEF NoChange, CoreOK, clientVars, chanVars

-----------------------------------------------------------------------------
(* Each command handler preserves CoreOK.                                  *)

LEMMA PassAuthType ==
    ASSUME CoreOK, NEW c \in Client, NEW ok \in BOOLEAN, PassAuth(c, ok)
    PROVE  CoreOK'
<1>1. CASE ~ok /\ QuitClient(c)
  BY <1>1, QuitClientType
<1>2. CASE ok /\ phase' = [phase EXCEPT ![c] = "Registration"]
              /\ UNCHANGED <<nick, username, operator, byNick, db>> /\ UNCHANGED chanVars
  BY <1>2 DEF CoreOK, Phase, chanVars
<1>3. QED
  BY <1>1, <1>2 DEF PassAuth

LEMMA NickRegType ==
    ASSUME CoreOK, NEW c \in Client, NEW n \in Nick \cup {NoNick, BadNick},
           NickReg(c, n)
    PROVE  CoreOK'
<1>1. CASE NoChange
  BY <1>1, NoChangeType
<1>2. CASE /\ n \in Nick /\ Get(n) = NoClient
           /\ nick' = [nick EXCEPT ![c] = n]
           /\ TryRegister(c, n, username[c])
           /\ UNCHANGED <<username, operator>> /\ UNCHANGED chanVars
  BY <1>2, TryRegisterType DEF CoreOK, chanVars
<1>3. QED
  BY <1>1, <1>2 DEF NickReg

LEMMA UserRegType ==
    ASSUME CoreOK, NEW c \in Client, UserReg(c)
    PROVE  CoreOK'
BY TryRegisterType DEF UserReg, CoreOK, chanVars

LEMMA NickNormalType ==
    ASSUME CoreOK, NEW c \in Client, NEW n \in Nick \cup {NoNick, BadNick},
           NickNormal(c, n)
    PROVE  CoreOK'
<1>1. CASE NoChange
  BY <1>1, NoChangeType
<1>2. CASE n \in Nick /\ ChangeNickname(c, n)
  BY <1>2, ChangeNicknameType
<1>3. QED
  BY <1>1, <1>2 DEF NickNormal

LEMMA JoinNormalType ==
    ASSUME CoreOK, NEW c \in Client, NEW ch \in Chan \cup {NoChan},
           JoinNormal(c, ch)
    PROVE  CoreOK'
<1>1. CASE Leave(c, memberOf[c]) /\ UNCHANGED <<clientVars, byNick, db>>
  BY <1>1, LeaveType DEF CoreOK, clientVars
<1>2. CASE ch \in Chan /\ Join(c, ch) /\ UNCHANGED <<clientVars, byNick, db>>
  BY <1>2, JoinType DEF CoreOK, clientVars
<1>3. QED
  BY <1>1, <1>2 DEF JoinNormal

LEMMA PartNormalType ==
    ASSUME CoreOK, NEW c \in Client, NEW ch \in Chan \cup {NoChan}, PartNormal(c, ch)
    PROVE  CoreOK'
<1>1. CASE NoChange
  BY <1>1, NoChangeType
<1>2. CASE ch \in channels /\ Leave(c, {ch}) /\ UNCHANGED <<clientVars, byNick, db>>
  BY <1>2, LeaveType DEF CoreOK, clientVars
<1>3. QED
  BY <1>1, <1>2 DEF PartNormal

LEMMA KickNormalType ==
    ASSUME CoreOK, NEW c \in Client, NEW n \in Nick \cup {NoNick, BadNick},
           NEW ch \in Chan \cup {NoChan}, KickNormal(c, n, ch)
    PROVE  CoreOK'
<1>1. CASE NoChange
  BY <1>1, NoChangeType
<1>2. CASE /\ ch \in channels /\ Get(n) # NoClient
           /\ Leave(Get(n), {ch}) /\ UNCHANGED <<clientVars, byNick, db>>
  <2>1. Get(n) \in Client
    BY <1>2, GetType DEF CoreOK
  <2>2. QED
    BY <1>2, <2>1, LeaveType DEF CoreOK, clientVars
<1>3. QED
  BY <1>1, <1>2 DEF KickNormal

LEMMA KillNormalType ==
    ASSUME CoreOK, NEW c \in Client, NEW n \in Nick \cup {NoNick, BadNick},
           KillNormal(c, n)
    PROVE  CoreOK'
<1>1. CASE NoChange
  BY <1>1, NoChangeType
<1>2. CASE Get(n) # NoClient /\ QuitClient(Get(n))
  <2>1. Get(n) \in Client
    BY <1>2, GetType DEF CoreOK
  <2>2. QED
    BY <1>2, <2>1, QuitClientType
<1>3. QED
  BY <1>1, <1>2 DEF KillNormal

LEMMA OperNormalType ==
    ASSUME CoreOK, NEW c \in Client, NEW ok \in BOOLEAN, OperNormal(c, ok)
    PROVE  CoreOK'
BY NoChangeType DEF OperNormal, CoreOK, chanVars

LEMMA ModeNormalType ==
    ASSUME CoreOK, NEW c \in Client, NEW n \in Nick \cup {NoNick, BadNick},
           NEW add \in BOOLEAN, ModeNormal(c, n, add)
    PROVE  CoreOK'
<1>1. CASE NoChange
  BY <1>1, NoChangeType
<1>2. CASE /\ Get(n) # NoClient
           /\ operator' = [operator EXCEPT ![Get(n)] = FALSE]
           /\ UNCHANGED <<phase, nick, username, byNick, db>> /\ UNCHANGED chanVars
  BY <1>2 DEF CoreOK, chanVars
<1>3. QED
  BY <1>1, <1>2 DEF ModeNormal

-----------------------------------------------------------------------------
(* processCommand preserves CoreOK and TimerOK.                            *)

LEMMA AuthorizationCmdType ==
    ASSUME CoreOK, TimerOK, NEW cmd \in Command, AuthorizationCmd(cmd)
    PROVE  CoreOK' /\ TimerOK'
<1>1. cmd.client \in Client /\ cmd.ok \in BOOLEAN
  BY DEF Command
<1>2. CoreOK'
  BY <1>1, QuitClientType, PassAuthType DEF AuthorizationCmd
<1>3. QED
  BY <1>2 DEF AuthorizationCmd, TimerOK, timerVars

LEMMA RegistrationCmdType ==
    ASSUME CoreOK, TimerOK, NEW cmd \in Command, RegistrationCmd(cmd)
    PROVE  CoreOK' /\ TimerOK'
<1>1. cmd.client \in Client /\ cmd.nick \in Nick \cup {NoNick, BadNick}
  BY DEF Command
<1>2. CoreOK'
  BY <1>1, QuitClientType, NickRegType, UserRegType DEF RegistrationCmd
<1>3. QED
  BY <1>2 DEF RegistrationCmd, TimerOK, timerVars

LEMMA NormalCmdType ==
    ASSUME CoreOK, TimerOK, NEW cmd \in Command, NormalCmd(cmd)
    PROVE  CoreOK' /\ TimerOK'
<1> DEFINE c == cmd.client
<1>1. /\ c \in Client
      /\ cmd.nick \in Nick \cup {NoNick, BadNick}
      /\ cmd.chan \in Chan \cup {NoChan}
      /\ cmd.ok \in BOOLEAN
  BY DEF Command
<1>2. TimerOK'
  BY <1>1 DEF NormalCmd, Touch, TimerOK, timerVars
<1> SUFFICES CoreOK'
  BY <1>2
<1>3. CASE cmd.verb \in {"PASS", "USER", "PONG"} /\ NoChange
  BY <1>3, NoChangeType
<1>4. CASE cmd.verb = "NICK" /\ NickNormal(c, cmd.nick)
  BY <1>1, <1>4, NickNormalType
<1>5. CASE cmd.verb = "QUIT" /\ QuitClient(c)
  BY <1>1, <1>5, QuitClientType
<1>6. CASE cmd.verb = "JOIN" /\ JoinNormal(c, cmd.chan)
  BY <1>1, <1>6, JoinNormalType
<1>7. CASE cmd.verb = "PART" /\ PartNormal(c, cmd.chan)
  BY <1>1, <1>7, PartNormalType
<1>8. CASE cmd.verb = "KICK" /\ KickNormal(c, cmd.nick, cmd.chan)
  BY <1>1, <1>8, KickNormalType
<1>9. CASE cmd.verb = "KILL" /\ KillNormal(c, cmd.nick)
  BY <1>1, <1>9, KillNormalType
<1>10. CASE cmd.verb = "OPER" /\ OperNormal(c, cmd.ok)
  BY <1>1, <1>10, OperNormalType
<1>11. CASE cmd.verb = "MODE" /\ ModeNormal(c, cmd.nick, cmd.ok)
  BY <1>1, <1>11, ModeNormalType
<1>12. QED
  BY <1>2, <1>3, <1>4, <1>5, <1>6, <1>7, <1>8, <1>9, <1>10, <1>11 DEF NormalCmd

-----------------------------------------------------------------------------
(* The events of Server.Run and the tasks feeding them preserve TypeOK.    *)

LEMMA InputType == \A c \in Client : Input(c) \subseteq Command
BY DEF Input, AllInput

LEMMA ProcessCommandType == TypeOK /\ ProcessCommand => TypeOK'
<1> SUFFICES ASSUME CoreOK, QueueOK, TimerOK, running \in BOOLEAN, ProcessCommand
             PROVE  CoreOK' /\ QueueOK' /\ TimerOK' /\ running' \in BOOLEAN
  BY DEF TypeOK, CoreOK, QueueOK, TimerOK
<1>1. Head(commands) \in Command /\ Tail(commands) \in Seq(Command)
  BY HeadTailProperties DEF ProcessCommand, QueueOK
<1>2. CoreOK' /\ TimerOK'
  <2>1. CASE AuthorizationCmd(Head(commands))
    BY <1>1, <2>1, AuthorizationCmdType
  <2>2. CASE RegistrationCmd(Head(commands))
    BY <1>1, <2>2, RegistrationCmdType
  <2>3. CASE NormalCmd(Head(commands))
    BY <1>1, <2>3, NormalCmdType
  <2>4. QED
    BY <2>1, <2>2, <2>3 DEF ProcessCommand
<1>3. QED
  BY <1>1, <1>2 DEF ProcessCommand, QueueOK

LEMMA TimeoutType == TypeOK /\ HandleTimeout => TypeOK'
<1> SUFFICES ASSUME CoreOK, QueueOK, TimerOK, running \in BOOLEAN, HandleTimeout
             PROVE  CoreOK' /\ QueueOK' /\ TimerOK' /\ running' \in BOOLEAN
  BY DEF TypeOK, CoreOK, QueueOK, TimerOK
<1>1. Head(timeoutQ) \in Client /\ Tail(timeoutQ) \in Seq(Client)
  BY HeadTailProperties DEF HandleTimeout, QueueOK
<1>2. CoreOK'
  BY <1>1, QuitClientType DEF HandleTimeout
<1>3. QED
  BY <1>1, <1>2 DEF HandleTimeout, QueueOK, TimerOK, timerVars

LEMMA IdleType == TypeOK /\ HandleIdle => TypeOK'
<1>1. TypeOK /\ HandleIdle => Head(idleQ) \in Client /\ Tail(idleQ) \in Seq(Client)
  BY HeadTailProperties DEF HandleIdle, TypeOK
<1>2. QED
  BY <1>1 DEF HandleIdle, TypeOK, clientVars, chanVars

LEMMA SubmitType ==
    ASSUME TypeOK, NEW c \in Client, NEW cmd \in Input(c), Submit(c, cmd)
    PROVE  TypeOK'
<1>1. Append(commands, cmd) \in Seq(Command)
  BY InputType, AppendProperties DEF TypeOK
<1>2. QED
  BY <1>1 DEF Submit, TypeOK, clientVars, chanVars, timerVars

LEMMA TimerFiresType ==
    ASSUME TypeOK, NEW c \in Client, IdleTimerFires(c) \/ QuitTimerFires(c)
    PROVE  TypeOK'
<1>1. Append(idleQ, c) \in Seq(Client) /\ Append(timeoutQ, c) \in Seq(Client)
  BY AppendProperties DEF TypeOK
<1>2. QED
  BY <1>1 DEF IdleTimerFires, QuitTimerFires, TypeOK, clientVars, chanVars

LEMMA AcceptType ==
    ASSUME TypeOK, NEW c \in Client, Accept(c)
    PROVE  TypeOK'
<1>1. Append(newConns, c) \in Seq(Client)
  BY AppendProperties DEF TypeOK
<1>2. QED
  BY <1>1 DEF Accept, TypeOK, clientVars, chanVars, timerVars

LEMMA ConnectType ==
    ASSUME TypeOK, NEW c \in Client, Connect(c)
    PROVE  TypeOK'
<1>1. Tail(newConns) \in Seq(Client)
  BY HeadTailProperties DEF Connect, TypeOK
<1>2. QED
  BY <1>1 DEF Connect, TypeOK, InitPhase, Phase, chanVars

LEMMA NextType == TypeOK /\ [Next]_vars => TypeOK'
<1> SUFFICES ASSUME TypeOK, [Next]_vars PROVE TypeOK'
  OBVIOUS
<1>0. CASE \E c \in Client : Accept(c)
  BY <1>0, AcceptType
<1>1. CASE \E c \in Client : Connect(c)
  BY <1>1, ConnectType
<1>2. CASE \E c \in Client : \E cmd \in Input(c) : Submit(c, cmd)
  BY <1>2, SubmitType
<1>3. CASE ProcessCommand
  BY <1>3, ProcessCommandType
<1>4. CASE \E c \in Client : IdleTimerFires(c) \/ QuitTimerFires(c)
  BY <1>4, TimerFiresType
<1>5. CASE HandleIdle
  BY <1>5, IdleType
<1>6. CASE HandleTimeout
  BY <1>6, TimeoutType
<1>7. CASE Shutdown
  BY <1>7 DEF Shutdown, TypeOK, clientVars, chanVars, queueVars, timerVars
<1>8. CASE UNCHANGED vars
  BY <1>8 DEF vars, TypeOK, clientVars, chanVars, queueVars, timerVars
<1>9. QED
  BY <1>0, <1>1, <1>2, <1>3, <1>4, <1>5, <1>6, <1>7, <1>8 DEF Next

LEMMA InitType == Init => TypeOK
BY ChanAssumption DEF Init, TypeOK, Phase

\* Every reachable state is well typed: the handlers only store clients,
\* nicknames IsNickname accepts, and channel names in their fields.
THEOREM TypeCorrect == Spec => []TypeOK
BY InitType, NextType, PTL DEF Spec

=============================================================================
