----------------------- MODULE IrcServerLifecycleProofs -----------------------
(***************************************************************************)
(* The server implements the client lifecycle of ClientLifecycle, for     *)
(* every value of the constants: every step changes the phase of at most  *)
(* one client, along one edge of the lifecycle.                           *)
(*                                                                         *)
(* Two steps do not look at the phase they change: Run's newConns case     *)
(* (NewClient) and its timeout case (Quit).  Both rest on ConnInv of IInv: *)
(* the head of newConns is still Unconnected and a client in               *)
(* Server.timeout has connected.  A KILL target is found through the      *)
(* index, so IndexedNormalOrTerminated places it in Normal or Terminated.          *)
(*                                                                         *)
(* The step that terminates a client also erases it: it leaves no channel *)
(* and no index entry naming it.  Quit parts only client.channels and     *)
(* removes only the key of the current nick, so this rests on              *)
(* MembershipConsistent (ChInv) and IndexConsistent (IInv) before the step.*)
(***************************************************************************)
EXTENDS IrcServerIndexProofs, IrcServerChannelProofs

\* A step of the lifecycle, or a step that leaves every phase alone.
LStep == [Lifecycle!Next]_phase

\* A step that leaves every phase alone.
LEMMA PhaseFrozen ==
    ASSUME UNCHANGED phase
    PROVE  LStep
BY DEF LStep

\* client.Quit: an open client terminates; a Terminated one stays so.
LEMMA QuitClientL ==
    ASSUME CoreOK, NEW c \in Client, phase[c] # "Unconnected", QuitClient(c)
    PROVE  LStep
<1>1. CASE phase[c] = "Terminated"
  <2>1. phase' = phase
    BY <1>1 DEF QuitClient, CoreOK
  <2>2. QED
    BY <2>1, PhaseFrozen
<1>2. CASE phase[c] # "Terminated"
  <2>1. phase[c] \in Lifecycle!OpenPhase
    BY <1>2 DEF CoreOK, Phase, Lifecycle!OpenPhase
  <2>2. Lifecycle!Terminate(c)
    BY <2>1 DEF QuitClient, Lifecycle!Terminate
  <2>3. QED
    BY <2>2 DEF LStep, Lifecycle!Next
<1>3. QED
  BY <1>1, <1>2

\* Server.tryRegister: a registering client becomes Normal, or nothing moves.
LEMMA TryRegisterL ==
    ASSUME NEW c \in Client, phase[c] = "Registration", NEW n, NEW u,
           TryRegister(c, n, u)
    PROVE  LStep
<1>1. CASE n # NoNick /\ u
  <2>1. Lifecycle!Register(c)
    BY <1>1 DEF TryRegister, Lifecycle!Register
  <2>2. QED
    BY <2>1 DEF LStep, Lifecycle!Next
<1>2. CASE ~(n # NoNick /\ u)
  BY <1>2, PhaseFrozen DEF TryRegister
<1>3. QED
  BY <1>1, <1>2

-----------------------------------------------------------------------------
(* The three branches of processCommand.                                   *)

LEMMA AuthorizationCmdL ==
    ASSUME CoreOK, NEW cmd \in Command, AuthorizationCmd(cmd)
    PROVE  LStep
<1> DEFINE c == cmd.client
<1>1. c \in Client /\ phase[c] = "Authorization"
  BY DEF Command, AuthorizationCmd
<1>2. CASE QuitClient(c)
  BY <1>1, <1>2, QuitClientL
<1>3. CASE phase' = [phase EXCEPT ![c] = "Registration"]
  <2>1. Lifecycle!Authorize(c)
    BY <1>1, <1>3 DEF Lifecycle!Authorize
  <2>2. QED
    BY <1>1, <2>1 DEF LStep, Lifecycle!Next
<1>4. QED
  BY <1>2, <1>3 DEF AuthorizationCmd, PassAuth

LEMMA RegistrationCmdL ==
    ASSUME CoreOK, NEW cmd \in Command, RegistrationCmd(cmd)
    PROVE  LStep
<1> DEFINE c == cmd.client
<1>1. c \in Client /\ phase[c] = "Registration"
  BY DEF Command, RegistrationCmd
<1>2. CASE QuitClient(c)
  BY <1>1, <1>2, QuitClientL
<1>3. CASE NoChange
  BY <1>3, PhaseFrozen DEF NoChange, clientVars
<1>4. CASE cmd.verb = "NICK" /\ NickReg(c, cmd.nick)
  BY <1>1, <1>3, <1>4, TryRegisterL DEF NickReg
<1>5. CASE cmd.verb = "USER" /\ UserReg(c)
  BY <1>1, <1>5, TryRegisterL DEF UserReg
<1>6. QED
  BY <1>2, <1>4, <1>5 DEF RegistrationCmd

LEMMA NormalCmdL ==
    ASSUME CoreOK, IdxInv, NEW cmd \in Command, NormalCmd(cmd)
    PROVE  LStep
<1> DEFINE c == cmd.client
<1>1. c \in Client /\ phase[c] # "Unconnected"
  BY DEF Command, NormalCmd
<1>2. CASE UNCHANGED phase
  BY <1>2, PhaseFrozen
<1>3. CASE cmd.verb = "QUIT" /\ QuitClient(c)
  BY <1>1, <1>3, QuitClientL
<1>4. CASE cmd.verb = "KILL" /\ KillNormal(c, cmd.nick)
  <2>1. CASE Get(cmd.nick) # NoClient /\ QuitClient(Get(cmd.nick))
    <3>1. Get(cmd.nick) \in Client /\ phase[Get(cmd.nick)] # "Unconnected"
      BY <2>1, GetRegistered DEF IdxInv
    <3>2. QED
      BY <2>1, <3>1, QuitClientL
  <2>2. QED
    BY <1>2, <1>4, <2>1 DEF KillNormal, NoChange, clientVars
<1>5. CASE cmd.verb = "NICK" /\ NickNormal(c, cmd.nick)
  BY <1>2, <1>5 DEF NickNormal, NoChange, clientVars, ChangeNickname
<1>6. CASE \/ cmd.verb \in {"PASS", "USER", "PONG"} /\ NoChange
           \/ cmd.verb = "JOIN" /\ JoinNormal(c, cmd.chan)
           \/ cmd.verb = "PART" /\ PartNormal(c, cmd.chan)
           \/ cmd.verb = "KICK" /\ KickNormal(c, cmd.nick, cmd.chan)
           \/ cmd.verb = "OPER" /\ OperNormal(c, cmd.ok)
           \/ cmd.verb = "MODE" /\ ModeNormal(c, cmd.nick, cmd.ok)
  BY <1>2, <1>6 DEF NoChange, clientVars, JoinNormal, PartNormal, KickNormal,
                    OperNormal, ModeNormal
<1>7. QED
  BY <1>3, <1>4, <1>5, <1>6 DEF NormalCmd

-----------------------------------------------------------------------------
(* Server.Run.                                                             *)

LEMMA NextL == IInv /\ [Next]_vars => LStep
<1> SUFFICES ASSUME TypeOK, IdxInv, ConnInv, [Next]_vars PROVE LStep
  BY DEF IInv
<1>1. CoreOK /\ QueueOK
  BY TypeOKSplit
<1>2. CASE \E c \in Client : Connect(c)
  <2>1. PICK c \in Client : Connect(c)
    BY <1>2
  <2>2. phase[c] = "Unconnected"
    BY <1>1, <2>1 DEF Connect, ConnInv, QueueOK
  <2>3. Lifecycle!Start(c)
    BY <2>1, <2>2 DEF Connect, Lifecycle!Start
  <2>4. QED
    BY <2>3 DEF LStep, Lifecycle!Next
<1>3. CASE ProcessCommand
  <2>1. Head(commands) \in Command
    BY <1>1, <1>3, HeadTailProperties DEF ProcessCommand, QueueOK
  <2>2. QED
    BY <1>1, <1>3, <2>1, AuthorizationCmdL, RegistrationCmdL, NormalCmdL
    DEF ProcessCommand
<1>4. CASE HandleTimeout
  <2>1. Head(timeoutQ) = timeoutQ[1] /\ Head(timeoutQ) \in Client
    BY <1>1, <1>4, HeadTailProperties DEF HandleTimeout, QueueOK
  <2>2. phase[Head(timeoutQ)] # "Unconnected"
    BY <1>1, <1>4, <2>1 DEF HandleTimeout, ConnInv, QueueOK
  <2>3. QED
    BY <1>1, <1>4, <2>1, <2>2, QuitClientL DEF HandleTimeout
<1>5. CASE \/ \E c \in Client : Accept(c)
           \/ \E c \in Client : \E cmd \in Input(c) : Submit(c, cmd)
           \/ \E c \in Client : IdleTimerFires(c) \/ QuitTimerFires(c)
           \/ HandleIdle \/ Shutdown \/ UNCHANGED vars
  BY <1>5, PhaseFrozen DEF Accept, Submit, IdleTimerFires, QuitTimerFires,
                           HandleIdle, Shutdown, vars, clientVars
<1>6. QED
  BY <1>2, <1>3, <1>4, <1>5 DEF Next

\* Spec 3, the Client lifecycle: a connection starts in InitPhase, passes
\* Authorization (when a password is set) and Registration in that order,
\* and ends in Terminated, which is final; each event-loop step moves at
\* most one client one step.  Commands a Terminated client left in
\* Server.commands, a KILL of a dead client and a late timeout event all
\* leave its phase alone.
THEOREM LifecycleRefinement == Spec => LifecycleSpec
<1>1. Init => Lifecycle!Init
  BY DEF Init, Lifecycle!Init
<1>2. IInv /\ [Next]_vars => [Lifecycle!Next]_phase
  BY NextL DEF LStep
<1>3. QED
  BY <1>1, <1>2, IInvInvariant, PTL DEF Spec, LifecycleSpec, Lifecycle!Spec


-----------------------------------------------------------------------------
(* The terminating step erases the client.                                 *)

\* Every client that this step terminates is in no channel and under no key
\* after it.
EStep ==
    \A c \in Client :
        (phase[c] # "Terminated" /\ phase'[c] = "Terminated") =>
            /\ \A ch \in Chan : c \notin members'[ch]
            /\ \A n \in LNick : byNick'[n] # c

\* A step that terminates nobody.
LEMMA NoneTerminated ==
    ASSUME \A d \in Client : phase'[d] = "Terminated" => phase[d] = "Terminated"
    PROVE  EStep
BY DEF EStep

\* A step that moves one client to a phase other than Terminated.
LEMMA SetPhaseE ==
    ASSUME CoreOK, NEW c \in Client, NEW v, v # "Terminated",
           phase' = [phase EXCEPT ![c] = v]
    PROVE  EStep
BY NoneTerminated DEF CoreOK

\* client.Quit parts every channel of client.channels and removes its key.
LEMMA QuitClientE ==
    ASSUME CoreOK, IndexConsistent, MembershipConsistent, NEW c \in Client,
           QuitClient(c)
    PROVE  EStep
<1>1. \A ch \in Chan : c \notin members'[ch]
  BY DEF QuitClient, Leave, MembershipConsistent, CoreOK
<1>2. \A n \in LNick : byNick'[n] # c
  BY RemoveOwn, ClientAssumption DEF QuitClient
<1>3. \A d \in Client : d # c => phase'[d] = phase[d]
  BY DEF QuitClient, CoreOK
<1>4. QED
  BY <1>1, <1>2, <1>3 DEF EStep

\* Server.tryRegister moves a client to Normal or leaves the phases alone.
LEMMA TryRegisterE ==
    ASSUME CoreOK, NEW c \in Client, NEW n, NEW u, TryRegister(c, n, u)
    PROVE  EStep
BY SetPhaseE, NoneTerminated DEF TryRegister

LEMMA AuthorizationCmdE ==
    ASSUME CoreOK, IndexConsistent, MembershipConsistent, NEW cmd \in Command,
           AuthorizationCmd(cmd)
    PROVE  EStep
<1> DEFINE c == cmd.client
<1>1. c \in Client
  BY DEF Command
<1>2. CASE QuitClient(c)
  BY <1>1, <1>2, QuitClientE
<1>3. CASE phase' = [phase EXCEPT ![c] = "Registration"]
  BY <1>1, <1>3, SetPhaseE
<1>4. QED
  BY <1>2, <1>3 DEF AuthorizationCmd, PassAuth

LEMMA RegistrationCmdE ==
    ASSUME CoreOK, IndexConsistent, MembershipConsistent, NEW cmd \in Command,
           RegistrationCmd(cmd)
    PROVE  EStep
<1> DEFINE c == cmd.client
<1>1. c \in Client
  BY DEF Command
<1>2. CASE QuitClient(c)
  BY <1>1, <1>2, QuitClientE
<1>3. CASE NoChange
  BY <1>3, NoneTerminated DEF NoChange, clientVars
<1>4. CASE cmd.verb = "NICK" /\ NickReg(c, cmd.nick)
  BY <1>1, <1>3, <1>4, TryRegisterE DEF NickReg
<1>5. CASE cmd.verb = "USER" /\ UserReg(c)
  BY <1>1, <1>5, TryRegisterE DEF UserReg
<1>6. QED
  BY <1>2, <1>4, <1>5 DEF RegistrationCmd

LEMMA NormalCmdE ==
    ASSUME CoreOK, IndexConsistent, MembershipConsistent, NEW cmd \in Command,
           NormalCmd(cmd)
    PROVE  EStep
<1> DEFINE c == cmd.client
<1>1. c \in Client
  BY DEF Command
<1>2. CASE UNCHANGED phase
  BY <1>2, NoneTerminated
<1>3. CASE cmd.verb = "QUIT" /\ QuitClient(c)
  BY <1>1, <1>3, QuitClientE
<1>4. CASE cmd.verb = "KILL" /\ KillNormal(c, cmd.nick)
  <2>1. CASE Get(cmd.nick) # NoClient /\ QuitClient(Get(cmd.nick))
    <3>1. Get(cmd.nick) \in Client
      BY <2>1, GetType DEF CoreOK
    <3>2. QED
      BY <2>1, <3>1, QuitClientE
  <2>2. QED
    BY <1>2, <1>4, <2>1 DEF KillNormal, NoChange, clientVars
<1>5. CASE cmd.verb = "NICK" /\ NickNormal(c, cmd.nick)
  BY <1>2, <1>5 DEF NickNormal, NoChange, clientVars, ChangeNickname
<1>6. CASE \/ cmd.verb \in {"PASS", "USER", "PONG"} /\ NoChange
           \/ cmd.verb = "JOIN" /\ JoinNormal(c, cmd.chan)
           \/ cmd.verb = "PART" /\ PartNormal(c, cmd.chan)
           \/ cmd.verb = "KICK" /\ KickNormal(c, cmd.nick, cmd.chan)
           \/ cmd.verb = "OPER" /\ OperNormal(c, cmd.ok)
           \/ cmd.verb = "MODE" /\ ModeNormal(c, cmd.nick, cmd.ok)
  BY <1>2, <1>6 DEF NoChange, clientVars, JoinNormal, PartNormal, KickNormal,
                    OperNormal, ModeNormal
<1>7. QED
  BY <1>3, <1>4, <1>5, <1>6 DEF NormalCmd

LEMMA NextE == TypeOK /\ IdxInv /\ ChInv /\ [Next]_vars => EStep
<1> SUFFICES ASSUME TypeOK, IdxInv, ChInv, [Next]_vars PROVE EStep
  OBVIOUS
<1>1. CoreOK /\ QueueOK /\ IndexConsistent /\ MembershipConsistent
  BY TypeOKSplit DEF IdxInv, ChInv
<1>2. CASE \E c \in Client : Connect(c)
  <2>1. PICK c \in Client : Connect(c)
    BY <1>2
  <2>2. InitPhase # "Terminated"
    BY DEF InitPhase
  <2>3. QED
    BY <1>1, <2>1, <2>2, SetPhaseE DEF Connect
<1>3. CASE ProcessCommand
  <2>1. Head(commands) \in Command
    BY <1>1, <1>3, HeadTailProperties DEF ProcessCommand, QueueOK
  <2>2. QED
    BY <1>1, <1>3, <2>1, AuthorizationCmdE, RegistrationCmdE, NormalCmdE
    DEF ProcessCommand
<1>4. CASE HandleTimeout
  <2>1. Head(timeoutQ) \in Client
    BY <1>1, <1>4, HeadTailProperties DEF HandleTimeout, QueueOK
  <2>2. QED
    BY <1>1, <1>4, <2>1, QuitClientE DEF HandleTimeout
<1>5. CASE \/ \E c \in Client : Accept(c)
           \/ \E c \in Client : \E cmd \in Input(c) : Submit(c, cmd)
           \/ \E c \in Client : IdleTimerFires(c) \/ QuitTimerFires(c)
           \/ HandleIdle \/ Shutdown \/ UNCHANGED vars
  BY <1>5, NoneTerminated DEF Accept, Submit, IdleTimerFires, QuitTimerFires,
                              HandleIdle, Shutdown, vars, clientVars
<1>6. QED
  BY <1>2, <1>3, <1>4, <1>5 DEF Next

\* Spec 8.5 and 11, client.Quit: the step that terminates a client, whether
\* by QUIT, a rejected PASS, a command outside its phase, a KILL or a ping
\* timeout, parts it from every channel and drops its index entry, so no
\* channel member list and no nick lookup names a Terminated client as
\* soon as it is Terminated.
THEOREM QuitErases == Spec => QuitErasesClient
<1>1. IInv /\ ChInv /\ [Next]_vars => [EStep]_vars
  BY NextE DEF IInv
<1>2. [][Next]_vars /\ []IInv /\ []ChInv => [][EStep]_vars
  BY <1>1, PTL
<1>3. QED
  BY <1>2, IInvInvariant, ChInvInvariant, PTL DEF Spec, QuitErasesClient, EStep

=============================================================================
