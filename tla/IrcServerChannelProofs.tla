------------------------ MODULE IrcServerChannelProofs ------------------------
(***************************************************************************)
(* Channel membership is bidirectional and the channel table holds exactly *)
(* the stored channels and the non-empty ones, for every value of the      *)
(* constants.  Together with TypeOK the two invariants are inductive: the  *)
(* only steps that touch channels are Join and Leave (Part, Kick, JOIN 0   *)
(* and Quit), and each updates both sides of the membership at once.       *)
(***************************************************************************)
EXTENDS IrcServerProofs

ChInv == MembershipConsistent /\ ChannelTableExact

\* A step that leaves every channel variable alone.
LEMMA ChFrozen ==
    ASSUME ChInv, UNCHANGED chanVars
    PROVE  ChInv'
BY DEF ChInv, MembershipConsistent, ChannelTableExact, chanVars

-----------------------------------------------------------------------------
(* Channel.Join and Channel.Part/Quit.                                     *)

LEMMA LeaveCh ==
    ASSUME CoreOK, ChInv, NEW c \in Client, NEW S \in SUBSET Chan, Leave(c, S)
    PROVE  ChInv'
<1>1. MembershipConsistent'
  <2>1. \A d \in Client, ch \in Chan : d \in members'[ch] <=> ch \in memberOf'[d]
    BY DEF Leave, CoreOK, ChInv, MembershipConsistent
  <2>2. \A ch \in Chan : chanops'[ch] \subseteq members'[ch]
    BY DEF Leave, CoreOK, ChInv, MembershipConsistent
  <2>3. QED
    BY <2>1, <2>2 DEF MembershipConsistent
<1>2. ChannelTableExact'
  BY ChanAssumption DEF Leave, CoreOK, ChInv, ChannelTableExact
<1>3. QED
  BY <1>1, <1>2 DEF ChInv

LEMMA JoinCh ==
    ASSUME CoreOK, ChInv, NEW c \in Client, NEW ch \in Chan, Join(c, ch)
    PROVE  ChInv'
<1>1. MembershipConsistent'
  <2>1. \A d \in Client, h \in Chan : d \in members'[h] <=> h \in memberOf'[d]
    BY DEF Join, CoreOK, ChInv, MembershipConsistent
  <2>2. \A h \in Chan : chanops'[h] \subseteq members'[h]
    BY DEF Join, CoreOK, ChInv, MembershipConsistent
  <2>3. QED
    BY <2>1, <2>2 DEF MembershipConsistent
<1>2. ChannelTableExact'
  BY DEF Join, CoreOK, ChInv, ChannelTableExact
<1>3. QED
  BY <1>1, <1>2 DEF ChInv

LEMMA QuitClientCh ==
    ASSUME CoreOK, ChInv, NEW c \in Client, QuitClient(c)
    PROVE  ChInv'
BY LeaveCh DEF QuitClient, CoreOK

-----------------------------------------------------------------------------
(* The handlers of processCommand.                                         *)

LEMMA NoChangeCh == ChInv /\ NoChange => ChInv'
BY ChFrozen DEF NoChange

LEMMA AuthorizationCmdCh ==
    ASSUME CoreOK, ChInv, NEW cmd \in Command, AuthorizationCmd(cmd)
    PROVE  ChInv'
<1>1. cmd.client \in Client
  BY DEF Command
<1>2. QED
  BY <1>1, QuitClientCh, ChFrozen DEF AuthorizationCmd, PassAuth

LEMMA RegistrationCmdCh ==
    ASSUME CoreOK, ChInv, NEW cmd \in Command, RegistrationCmd(cmd)
    PROVE  ChInv'
<1>1. cmd.client \in Client
  BY DEF Command
<1>2. QED
  BY <1>1, QuitClientCh, NoChangeCh, ChFrozen DEF RegistrationCmd, NickReg, UserReg

LEMMA NormalCmdCh ==
    ASSUME CoreOK, ChInv, NEW cmd \in Command, NormalCmd(cmd)
    PROVE  ChInv'
<1> DEFINE c == cmd.client
<1>1. c \in Client /\ cmd.chan \in Chan \cup {NoChan}
  BY DEF Command
<1>2. CASE cmd.verb \in {"PASS", "USER", "PONG"} /\ NoChange
  BY <1>2, NoChangeCh
<1>3. CASE cmd.verb = "NICK" /\ NickNormal(c, cmd.nick)
  BY <1>3, NoChangeCh, ChFrozen DEF NickNormal, ChangeNickname
<1>4. CASE cmd.verb = "QUIT" /\ QuitClient(c)
  BY <1>1, <1>4, QuitClientCh
<1>5. CASE cmd.verb = "JOIN" /\ JoinNormal(c, cmd.chan)
  <2>1. CASE Leave(c, memberOf[c])
    BY <1>1, <2>1, LeaveCh DEF CoreOK
  <2>2. CASE cmd.chan \in Chan /\ Join(c, cmd.chan)
    BY <1>1, <2>2, JoinCh
  <2>3. QED
    BY <1>5, <2>1, <2>2 DEF JoinNormal
<1>6. CASE cmd.verb = "PART" /\ PartNormal(c, cmd.chan)
  <2>1. CASE NoChange
    BY <2>1, NoChangeCh
  <2>2. CASE cmd.chan \in channels /\ Leave(c, {cmd.chan})
    BY <1>1, <2>2, LeaveCh DEF CoreOK
  <2>3. QED
    BY <1>6, <2>1, <2>2 DEF PartNormal
<1>7. CASE cmd.verb = "KICK" /\ KickNormal(c, cmd.nick, cmd.chan)
  <2>1. CASE NoChange
    BY <2>1, NoChangeCh
  <2>2. CASE /\ cmd.chan \in channels /\ Get(cmd.nick) # NoClient
             /\ Leave(Get(cmd.nick), {cmd.chan})
    BY <2>2, GetType, LeaveCh DEF CoreOK
  <2>3. QED
    BY <1>7, <2>1, <2>2 DEF KickNormal
<1>8. CASE cmd.verb = "KILL" /\ KillNormal(c, cmd.nick)
  <2>1. CASE NoChange
    BY <2>1, NoChangeCh
  <2>2. CASE Get(cmd.nick) # NoClient /\ QuitClient(Get(cmd.nick))
    BY <2>2, GetType, QuitClientCh DEF CoreOK
  <2>3. QED
    BY <1>8, <2>1, <2>2 DEF KillNormal
<1>9. CASE \/ cmd.verb = "OPER" /\ OperNormal(c, cmd.ok)
           \/ cmd.verb = "MODE" /\ ModeNormal(c, cmd.nick, cmd.ok)
  BY <1>9, NoChangeCh, ChFrozen DEF OperNormal, ModeNormal
<1>10. QED
  BY <1>2, <1>3, <1>4, <1>5, <1>6, <1>7, <1>8, <1>9 DEF NormalCmd

LEMMA NextCh == TypeOK /\ ChInv /\ [Next]_vars => ChInv'
<1> SUFFICES ASSUME TypeOK, ChInv, [Next]_vars PROVE ChInv'
  OBVIOUS
<1>1. CoreOK /\ QueueOK
  BY TypeOKSplit
<1>2. CASE ProcessCommand
  <2>1. Head(commands) \in Command
    BY <1>1, <1>2, HeadTailProperties DEF ProcessCommand, QueueOK
  <2>2. QED
    BY <1>1, <1>2, <2>1, AuthorizationCmdCh, RegistrationCmdCh, NormalCmdCh
    DEF ProcessCommand
<1>3. CASE HandleTimeout
  <2>1. Head(timeoutQ) \in Client
    BY <1>1, <1>3, HeadTailProperties DEF HandleTimeout, QueueOK
  <2>2. QED
    BY <1>1, <1>3, <2>1, QuitClientCh DEF HandleTimeout
<1>4. CASE \/ \E c \in Client : Connect(c)
           \/ \E c \in Client : \E cmd \in Input(c) : Submit(c, cmd)
           \/ \E c \in Client : Accept(c)
           \/ \E c \in Client : IdleTimerFires(c) \/ QuitTimerFires(c)
           \/ HandleIdle \/ Shutdown \/ UNCHANGED vars
  <2>1. UNCHANGED chanVars
    BY <1>4 DEF Accept, Connect, Submit, IdleTimerFires, QuitTimerFires, HandleIdle,
                Shutdown, vars
  <2>2. QED
    BY <2>1, ChFrozen
<1>5. QED
  BY <1>2, <1>3, <1>4 DEF Next

LEMMA ChInvInvariant == Spec => []ChInv
<1>1. Init => ChInv
  BY ChanAssumption DEF Init, ChInv, MembershipConsistent, ChannelTableExact
<1>2. QED
  BY <1>1, NextCh, TypeCorrect, PTL DEF Spec

\* Spec 3 and 8.2: a client is a member of a channel iff the channel is in
\* the client's own channel set, and every channel operator is a member;
\* Join, Part, Kick, JOIN 0 and Quit keep both sides in step.
THEOREM MembershipCorrect == Spec => []MembershipConsistent
BY ChInvInvariant, PTL DEF ChInv

\* Spec 8.3: the channel table holds the stored channels and exactly the
\* other channels that have members; Channel.Part and Quit delete a
\* non-persistent channel they leave empty.
THEOREM ChannelTableCorrect == Spec => []ChannelTableExact
BY ChInvInvariant, PTL DEF ChInv

=============================================================================
