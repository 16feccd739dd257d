---------------------- MODULE IrcServerRegistryProofs -----------------------
(***************************************************************************)
(* The server's nickname index implements the abstract NickRegistry: every *)
(* step of the event loop either leaves the index alone or is one client's *)
(* Claim, Release or Rename.  The argument rests on the inductive invariant *)
(* IInv of IrcServerIndexProofs: a client's only entry is under its current *)
(* nick, and a client still registering has none.                          *)
(***************************************************************************)
EXTENDS IrcServerIndexProofs

\* A step of the index as the registry sees it.
RStep == [Registry!Next]_byNick

-----------------------------------------------------------------------------
(* ClientLookupSet.Remove under the client's current nick either finds no  *)
(* entry of the client, or removes its single entry.                       *)

LEMMA RemoveCases ==
    ASSUME CoreOK, IndexConsistent, NEW c \in Client
    PROVE  \/ /\ IndexRemove(byNick, c, nick[c]) = byNick
              /\ \A m \in LNick : byNick[m] # c
           \/ \E j \in LNick :
                 /\ byNick[j] = c
                 /\ IndexRemove(byNick, c, nick[c]) = [byNick EXCEPT ![j] = NoClient]
                 /\ \A m \in LNick : byNick[m] = c => m = j
<1>1. \A m \in LNick : byNick[m] = c => nick[c] \in Nick /\ Lower(nick[c]) = m
  BY ClientAssumption DEF IndexConsistent
<1>2. NoNick \notin Nick
  BY NickAssumption
<1>3. CASE nick[c] = NoNick
  BY <1>1, <1>2, <1>3 DEF IndexRemove
<1>4. CASE nick[c] \in Nick /\ byNick[Lower(nick[c])] = c
  BY <1>1, <1>2, <1>4, LowerType DEF IndexRemove
<1>5. CASE nick[c] \in Nick /\ byNick[Lower(nick[c])] # c
  BY <1>1, <1>5 DEF IndexRemove
<1>6. QED
  BY <1>3, <1>4, <1>5 DEF CoreOK

\* ClientLookupSet.Add for a client without an entry is a Claim or nothing.
LEMMA AddStep ==
    ASSUME CoreOK, NEW c \in Client, \A m \in LNick : byNick[m] # c,
           NEW n \in Nick \cup {NoNick}, byNick' = IndexAdd(byNick, c, n)
    PROVE  RStep
<1>1. CASE n = NoNick \/ byNick[Lower(n)] # NoClient
  BY <1>1 DEF IndexAdd, RStep
<1>2. CASE n # NoNick /\ byNick[Lower(n)] = NoClient
  <2>1. Lower(n) \in LNick
    BY <1>2, LowerType
  <2>2. Registry!Claim(c, Lower(n))
    BY <1>2, <2>1 DEF IndexAdd, Registry!Claim, Registry!KeysOf
  <2>3. QED
    BY <2>1, <2>2 DEF RStep, Registry!Next
<1>3. QED
  BY <1>1, <1>2

\* Client.Quit releases the client's key, if it has one.
LEMMA QuitClientReg ==
    ASSUME CoreOK, IndexConsistent, NEW c \in Client, QuitClient(c)
    PROVE  RStep
<1>1. CASE IndexRemove(byNick, c, nick[c]) = byNick
  BY <1>1 DEF QuitClient, RStep
<1>2. CASE \E j \in LNick : byNick[j] = c /\
             IndexRemove(byNick, c, nick[c]) = [byNick EXCEPT ![j] = NoClient]
  <2>1. PICK j \in LNick : byNick[j] = c /\
             IndexRemove(byNick, c, nick[c]) = [byNick EXCEPT ![j] = NoClient]
    BY <1>2
  <2>2. Registry!Release(c, j)
    BY <2>1 DEF QuitClient, Registry!Release
  <2>3. QED
    BY <2>2 DEF RStep, Registry!Next
<1>3. QED
  BY <1>1, <1>2, RemoveCases

\* Client.ChangeNickname to a key that is free or already the client's: a
\* Claim (the client had no entry), a Rename, or no change (a case change).
LEMMA ChangeNicknameReg ==
    ASSUME CoreOK, IndexConsistent, NEW c \in Client, NEW n \in Nick,
           byNick[Lower(n)] \in {NoClient, c}, ChangeNickname(c, n)
    PROVE  RStep
<1> DEFINE k == Lower(n)
<1>1. k \in LNick /\ n # NoNick
  BY LowerType, NickAssumption
<1>2. CASE IndexRemove(byNick, c, nick[c]) = byNick /\ \A m \in LNick : byNick[m] # c
  BY <1>1, <1>2, AddStep DEF ChangeNickname
<1>3. CASE \E j \in LNick :
             /\ byNick[j] = c
             /\ IndexRemove(byNick, c, nick[c]) = [byNick EXCEPT ![j] = NoClient]
             /\ \A m \in LNick : byNick[m] = c => m = j
  <2>1. PICK j \in LNick :
             /\ byNick[j] = c
             /\ IndexRemove(byNick, c, nick[c]) = [byNick EXCEPT ![j] = NoClient]
             /\ \A m \in LNick : byNick[m] = c => m = j
    BY <1>3
  <2>2. CASE k = j
    <3>1. byNick' = [[byNick EXCEPT ![j] = NoClient] EXCEPT ![j] = c]
      BY <1>1, <2>1, <2>2 DEF ChangeNickname, IndexAdd, CoreOK
    <3>2. byNick' = byNick
      BY <2>1, <3>1 DEF CoreOK
    <3>3. QED
      BY <3>2 DEF RStep
  <2>3. CASE k # j
    <3>1. byNick[k] = NoClient
      BY <2>1, <2>3, <1>1
    <3>2. byNick' = [byNick EXCEPT ![j] = NoClient, ![k] = c]
      BY <1>1, <2>1, <2>3, <3>1 DEF ChangeNickname, IndexAdd, CoreOK
    <3>3. Registry!Rename(c, j, k)
      BY <2>1, <3>1, <3>2 DEF Registry!Rename
    <3>4. QED
      BY <1>1, <3>3 DEF RStep, Registry!Next
  <2>4. QED
    BY <2>2, <2>3
<1>4. QED
  BY <1>2, <1>3, RemoveCases

\* Server.tryRegister of a client without an entry: a Claim or nothing.
LEMMA TryRegisterReg ==
    ASSUME CoreOK, NEW c \in Client, NEW n \in Nick \cup {NoNick}, NEW u,
           \A m \in LNick : byNick[m] # c, TryRegister(c, n, u)
    PROVE  RStep
<1>1. CASE n # NoNick /\ u
  BY <1>1, AddStep DEF TryRegister
<1>2. CASE ~(n # NoNick /\ u)
  BY <1>2 DEF TryRegister, RStep
<1>3. QED
  BY <1>1, <1>2

-----------------------------------------------------------------------------
(* The handlers of processCommand.                                         *)

LEMMA PassAuthReg ==
    ASSUME CoreOK, IndexConsistent, NEW c \in Client, NEW ok, PassAuth(c, ok)
    PROVE  RStep
BY QuitClientReg DEF PassAuth, RStep

LEMMA NickRegReg ==
    ASSUME CoreOK, IdxInv, NEW c \in Client, NEW n,
           phase[c] = "Registration", NickReg(c, n)
    PROVE  RStep
<1>1. \A m \in LNick : byNick[m] # c
  BY NotIndexed DEF IdxInv
<1>2. QED
  BY <1>1, TryRegisterReg DEF NickReg, NoChange, RStep

LEMMA UserRegReg ==
    ASSUME CoreOK, IdxInv, NEW c \in Client,
           phase[c] = "Registration", UserReg(c)
    PROVE  RStep
<1>1. \A m \in LNick : byNick[m] # c
  BY NotIndexed DEF IdxInv
<1>2. nick[c] \in Nick \cup {NoNick}
  BY DEF CoreOK
<1>3. QED
  BY <1>1, <1>2, TryRegisterReg DEF UserReg

LEMMA NickNormalReg ==
    ASSUME CoreOK, IndexConsistent, NEW c \in Client, NEW n, NickNormal(c, n)
    PROVE  RStep
<1>1. CASE NoChange
  BY <1>1 DEF NoChange, RStep
<1>2. CASE n \in Nick /\ Get(n) \in {NoClient, c} /\ ChangeNickname(c, n)
  BY <1>2, ChangeNicknameReg DEF Get
<1>3. QED
  BY <1>1, <1>2 DEF NickNormal

LEMMA KillNormalReg ==
    ASSUME CoreOK, IndexConsistent, NEW c \in Client, NEW n, KillNormal(c, n)
    PROVE  RStep
<1>1. CASE NoChange
  BY <1>1 DEF NoChange, RStep
<1>2. CASE Get(n) # NoClient /\ QuitClient(Get(n))
  BY <1>2, GetType, QuitClientReg DEF CoreOK
<1>3. QED
  BY <1>1, <1>2 DEF KillNormal

-----------------------------------------------------------------------------
(* Dispatch on the phase, and the events of Server.Run.                    *)

LEMMA AuthorizationCmdReg ==
    ASSUME CoreOK, IdxInv, NEW cmd \in Command, AuthorizationCmd(cmd)
    PROVE  RStep
<1>1. cmd.client \in Client
  BY DEF Command
<1>2. QED
  BY <1>1, QuitClientReg, PassAuthReg DEF AuthorizationCmd, IdxInv

LEMMA RegistrationCmdReg ==
    ASSUME CoreOK, IdxInv, NEW cmd \in Command, RegistrationCmd(cmd)
    PROVE  RStep
<1>1. cmd.client \in Client
  BY DEF Command
<1>2. QED
  BY <1>1, QuitClientReg, NickRegReg, UserRegReg DEF RegistrationCmd, IdxInv

LEMMA NormalCmdReg ==
    ASSUME CoreOK, IdxInv, NEW cmd \in Command, NormalCmd(cmd)
    PROVE  RStep
<1> DEFINE c == cmd.client
<1>1. c \in Client
  BY DEF Command
<1>2. CASE cmd.verb \in {"PASS", "USER", "PONG"} /\ NoChange
  BY <1>2 DEF NoChange, RStep
<1>3. CASE cmd.verb = "NICK" /\ NickNormal(c, cmd.nick)
  BY <1>1, <1>3, NickNormalReg DEF IdxInv
<1>4. CASE cmd.verb = "QUIT" /\ QuitClient(c)
  BY <1>1, <1>4, QuitClientReg DEF IdxInv
<1>5. CASE cmd.verb = "KILL" /\ KillNormal(c, cmd.nick)
  BY <1>1, <1>5, KillNormalReg DEF IdxInv
<1>6. CASE \/ JoinNormal(c, cmd.chan) \/ PartNormal(c, cmd.chan)
           \/ KickNormal(c, cmd.nick, cmd.chan)
           \/ OperNormal(c, cmd.ok) \/ ModeNormal(c, cmd.nick, cmd.ok)
  BY <1>6, OtherNormalFrozen DEF RStep
<1>7. QED
  BY <1>2, <1>3, <1>4, <1>5, <1>6 DEF NormalCmd

LEMMA NextReg == IInv /\ [Next]_vars => RStep
<1> SUFFICES ASSUME TypeOK, IdxInv, [Next]_vars PROVE RStep
  BY DEF IInv
<1>1. CoreOK /\ QueueOK
  BY TypeOKSplit
<1>2. CASE ProcessCommand
  <2>1. Head(commands) \in Command
    BY <1>1, <1>2, HeadTailProperties DEF ProcessCommand, QueueOK
  <2>2. QED
    BY <1>1, <1>2, <2>1, AuthorizationCmdReg, RegistrationCmdReg, NormalCmdReg
    DEF ProcessCommand
<1>3. CASE HandleTimeout
  <2>1. Head(timeoutQ) \in Client
    BY <1>1, <1>3, HeadTailProperties DEF HandleTimeout, QueueOK
  <2>2. QED
    BY <1>1, <1>3, <2>1, QuitClientReg DEF HandleTimeout, IdxInv
<1>4. CASE \/ \E c \in Client : Connect(c)
           \/ \E c \in Client : \E cmd \in Input(c) : Submit(c, cmd)
           \/ \E c \in Client : Accept(c)
           \/ \E c \in Client : IdleTimerFires(c) \/ QuitTimerFires(c)
           \/ HandleIdle \/ Shutdown \/ UNCHANGED vars
  BY <1>4 DEF Accept, Connect, Submit, IdleTimerFires, QuitTimerFires, HandleIdle,
              Shutdown, vars, RStep
<1>5. QED
  BY <1>2, <1>3, <1>4 DEF Next

\* The server implements the nickname registry of spec 4.5: ClientLookupSet
\* changes only by one client's Add of a free key, Remove of its own key, or
\* Remove-then-Add on a nickname change, and never takes a key from another.
THEOREM Refinement == Spec => RegistrySpec
<1>1. Init => Registry!Init
  BY DEF Init, Registry!Init
<1>2. IInv /\ [Next]_vars => [Registry!Next]_byNick
  BY NextReg DEF RStep
<1>3. QED
  BY <1>1, <1>2, IInvInvariant, PTL DEF Spec, RegistrySpec, Registry!Spec

=============================================================================
