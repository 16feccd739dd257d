-------------------------- MODULE IrcServerDbProofs --------------------------
(***************************************************************************)
(* When no ClientDB statement fails, the userhost table mirrors the       *)
(* nickname index (spec 3: an entry is in the wildcard index iff it is in *)
(* the nick map).  The table is stated pointwise (DbInvOf): a row          *)
(* <<n, c>> is present iff byNick maps Lower(n) to c and c's nick is n.    *)
(* Add, Remove and a nick change of an unindexed client each keep that     *)
(* relation; the rest rests on IInv of IrcServerIndexProofs.               *)
(***************************************************************************)
EXTENDS IrcServerRegistryProofs

\* The table's rows against an index idx and a nick assignment nk.
DbInvOf(idx, d, nk) ==
    \A n \in Nick, c \in Client : <<n, c>> \in d <=> (idx[Lower(n)] = c /\ nk[c] = n)

DbInv == DbInvOf(byNick, db, nick)

IdxType(idx) == idx \in [LNick -> Client \cup {NoClient}]
NickType(nk) == nk \in [Client -> Nick \cup {NoNick}]

-----------------------------------------------------------------------------
(* The three things that happen to a row.                                  *)

\* A client without an entry has no row, so its nick may change freely.
LEMMA DbUnindexedNick ==
    ASSUME NEW idx, IdxType(idx), NEW d, NEW nk, NickType(nk), DbInvOf(idx, d, nk),
           NEW c \in Client, \A m \in LNick : idx[m] # c,
           NEW n \in Nick \cup {NoNick}
    PROVE  DbInvOf(idx, d, [nk EXCEPT ![c] = n])
BY LowerType DEF DbInvOf, IdxType, NickType

\* ClientLookupSet.Add with ClientDB.Add succeeding.
LEMMA DbAddInv ==
    ASSUME ~DbFaults, NEW idx, IdxType(idx), NEW d \in SUBSET (Nick \X Client),
           NEW nk, NickType(nk), DbInvOf(idx, d, nk),
           NEW c \in Client, \A m \in LNick : idx[m] # c,
           NEW n \in Nick \cup {NoNick}, nk[c] = n,
           NEW e \in DbAfterAdd(idx, d, c, n)
    PROVE  DbInvOf(IndexAdd(idx, c, n), e, nk)
<1>1. CASE n = NoNick \/ idx[Lower(n)] # NoClient
  BY <1>1 DEF DbAfterAdd, IndexAdd
<1>2. CASE n # NoNick /\ idx[Lower(n)] = NoClient
  <2>1. n \in Nick /\ Lower(n) \in LNick
    BY <1>2, LowerType
  <2>2. ~\E r \in d : r[1] = n
    BY <1>2, <2>1, ClientAssumption DEF DbInvOf
  <2>3. e = d \cup {<<n, c>>}
    BY <1>2, <2>2 DEF DbAfterAdd, DbExec, DbInsert
  <2>4. IndexAdd(idx, c, n) = [idx EXCEPT ![Lower(n)] = c]
    BY <1>2 DEF IndexAdd
  <2> SUFFICES ASSUME NEW m \in Nick, NEW x \in Client
               PROVE  <<m, x>> \in e <=> (IndexAdd(idx, c, n)[Lower(m)] = x /\ nk[x] = m)
    BY DEF DbInvOf
  <2>5. Lower(m) \in LNick /\ x # NoClient
    BY LowerType, ClientAssumption
  <2>6. CASE m = n /\ x = c
    BY <2>1, <2>3, <2>4, <2>6 DEF IdxType
  <2>7. CASE ~(m = n /\ x = c) /\ Lower(m) # Lower(n)
    <3>1. <<m, x>> \in e <=> <<m, x>> \in d
      BY <2>3, <2>7
    <3>2. IndexAdd(idx, c, n)[Lower(m)] = idx[Lower(m)]
      BY <2>4, <2>5, <2>7 DEF IdxType
    <3>3. QED
      BY <3>1, <3>2 DEF DbInvOf
  <2>8. CASE ~(m = n /\ x = c) /\ Lower(m) = Lower(n)
    <3>1. <<m, x>> \notin d
      BY <1>2, <2>5, <2>8 DEF DbInvOf
    <3>2. <<m, x>> \notin e
      BY <3>1, <2>3, <2>8
    <3>3. ~(IndexAdd(idx, c, n)[Lower(m)] = x /\ nk[x] = m)
      BY <2>1, <2>4, <2>8 DEF IdxType
    <3>4. QED
      BY <3>2, <3>3
  <2>9. QED
    BY <2>6, <2>7, <2>8
<1>3. QED
  BY <1>1, <1>2

\* ClientLookupSet.Remove with ClientDB.Remove succeeding.
LEMMA DbRemoveInv ==
    ASSUME ~DbFaults, NEW idx, IdxType(idx), NEW d \in SUBSET (Nick \X Client),
           NEW nk, NickType(nk), DbInvOf(idx, d, nk), NEW c \in Client,
           NEW e \in DbAfterRemove(idx, d, c, nk[c])
    PROVE  DbInvOf(IndexRemove(idx, c, nk[c]), e, nk)
<1>1. CASE nk[c] = NoNick \/ idx[Lower(nk[c])] # c
  BY <1>1 DEF DbAfterRemove, IndexRemove
<1>2. CASE nk[c] # NoNick /\ idx[Lower(nk[c])] = c
  <2>1. nk[c] \in Nick /\ Lower(nk[c]) \in LNick
    BY <1>2, LowerType DEF NickType
  <2>2. e = {r \in d : r[1] # nk[c]}
    BY <1>2 DEF DbAfterRemove, DbExec, DbDelete
  <2>3. IndexRemove(idx, c, nk[c]) = [idx EXCEPT ![Lower(nk[c])] = NoClient]
    BY <1>2 DEF IndexRemove
  <2> SUFFICES ASSUME NEW m \in Nick, NEW x \in Client
               PROVE  <<m, x>> \in e <=>
                        (IndexRemove(idx, c, nk[c])[Lower(m)] = x /\ nk[x] = m)
    BY DEF DbInvOf
  <2>4. Lower(m) \in LNick /\ x # NoClient
    BY LowerType, ClientAssumption
  <2>5. CASE m = nk[c]
    BY <2>1, <2>2, <2>3, <2>4, <2>5 DEF IdxType
  <2>6. CASE m # nk[c] /\ Lower(m) # Lower(nk[c])
    BY <2>1, <2>2, <2>3, <2>4, <2>6 DEF IdxType, DbInvOf
  <2>7. CASE m # nk[c] /\ Lower(m) = Lower(nk[c])
    <3>1. <<m, x>> \notin d
      BY <1>2, <2>7 DEF DbInvOf
    <3>2. QED
      BY <2>1, <2>2, <2>3, <2>4, <3>1, <2>7 DEF IdxType
  <2>8. QED
    BY <2>5, <2>6, <2>7
<1>3. QED
  BY <1>1, <1>2

-----------------------------------------------------------------------------
(* The Client operations that reach ClientLookupSet.                       *)

\* A step that leaves the nicks, the index and the table alone.
LEMMA DbFrozen ==
    ASSUME DbInv, UNCHANGED <<nick, byNick, db>>
    PROVE  DbInv'
BY DEF DbInv, DbInvOf

LEMMA QuitClientDb ==
    ASSUME ~DbFaults, CoreOK, DbInv, NEW c \in Client, QuitClient(c)
    PROVE  DbInv'
<1>1. IdxType(byNick) /\ NickType(nick) /\ db \in SUBSET (Nick \X Client)
  BY DEF CoreOK, IdxType, NickType
<1>2. DbInvOf(IndexRemove(byNick, c, nick[c]), db', nick)
  BY <1>1, DbRemoveInv DEF QuitClient, DbInv
<1>3. QED
  BY <1>2 DEF QuitClient, DbInv

\* Server.tryRegister for a client without an entry, whose nick is now nk[c].
LEMMA TryRegisterDb ==
    ASSUME ~DbFaults, CoreOK, NEW nk, NickType(nk), DbInvOf(byNick, db, nk),
           NEW c \in Client, \A m \in LNick : byNick[m] # c,
           NEW n \in Nick \cup {NoNick}, nk[c] = n, NEW u, TryRegister(c, n, u)
    PROVE  DbInvOf(byNick', db', nk)
<1>1. CASE n # NoNick /\ u
  <2>1. IdxType(byNick) /\ db \in SUBSET (Nick \X Client)
    BY DEF CoreOK, IdxType
  <2>2. QED
    BY <1>1, <2>1, DbAddInv DEF TryRegister
<1>2. CASE ~(n # NoNick /\ u)
  BY <1>2 DEF TryRegister
<1>3. QED
  BY <1>1, <1>2

\* Client.ChangeNickname: Remove, then a nick change of a client that has
\* no entry any more, then Add.
LEMMA ChangeNicknameDb ==
    ASSUME ~DbFaults, CoreOK, IndexConsistent, DbInv, NEW c \in Client,
           NEW n \in Nick, ChangeNickname(c, n)
    PROVE  DbInv'
<1> DEFINE idx1 == IndexRemove(byNick, c, nick[c])
<1>1. PICK d \in DbAfterRemove(byNick, db, c, nick[c]) : db' \in DbAfterAdd(idx1, d, c, n)
  BY DEF ChangeNickname
<1>2. IdxType(byNick) /\ NickType(nick) /\ db \in SUBSET (Nick \X Client)
  BY DEF CoreOK, IdxType, NickType
<1>3. DbInvOf(idx1, d, nick)
  BY <1>1, <1>2, DbRemoveInv DEF DbInv
<1>4. \A m \in LNick : idx1[m] # c
  <2>1. CASE idx1 = byNick /\ \A m \in LNick : byNick[m] # c
    BY <2>1
  <2>2. CASE \E j \in LNick : /\ byNick[j] = c
                              /\ idx1 = [byNick EXCEPT ![j] = NoClient]
                              /\ \A m \in LNick : byNick[m] = c => m = j
    <3>1. PICK j \in LNick : /\ byNick[j] = c
                             /\ idx1 = [byNick EXCEPT ![j] = NoClient]
                             /\ \A m \in LNick : byNick[m] = c => m = j
      BY <2>2
    <3>2. QED
      BY <3>1, ClientAssumption DEF CoreOK
  <2>3. QED
    BY <2>1, <2>2, RemoveCases
<1>5. IdxType(idx1) /\ d \in SUBSET (Nick \X Client)
  BY <1>2, IndexRemoveType, DbAfterRemoveType DEF CoreOK, IdxType
<1>6. DbInvOf(idx1, d, nick') /\ NickType(nick') /\ nick'[c] = n
  BY <1>2, <1>3, <1>4, <1>5, DbUnindexedNick DEF ChangeNickname, NickType
<1>7. DbInvOf(IndexAdd(idx1, c, n), db', nick')
  BY <1>1, <1>4, <1>5, <1>6, DbAddInv
<1>8. QED
  BY <1>7 DEF ChangeNickname, DbInv

-----------------------------------------------------------------------------
(* The handlers of processCommand.                                         *)

LEMMA NoChangeDb == DbInv /\ NoChange => DbInv'
BY DbFrozen DEF NoChange, clientVars

LEMMA PassAuthDb ==
    ASSUME ~DbFaults, CoreOK, DbInv, NEW c \in Client, NEW ok, PassAuth(c, ok)
    PROVE  DbInv'
BY QuitClientDb, DbFrozen DEF PassAuth

LEMMA NickRegDb ==
    ASSUME ~DbFaults, CoreOK, IdxInv, DbInv, NEW c \in Client, NEW n,
           phase[c] = "Registration", NickReg(c, n)
    PROVE  DbInv'
<1>1. CASE NoChange
  BY <1>1, NoChangeDb
<1>2. CASE /\ n \in Nick /\ Get(n) = NoClient
           /\ nick' = [nick EXCEPT ![c] = n]
           /\ TryRegister(c, n, username[c])
  <2>1. \A m \in LNick : byNick[m] # c
    BY NotIndexed DEF IdxInv
  <2>2. DbInvOf(byNick, db, nick') /\ NickType(nick') /\ nick'[c] = n
    BY <1>2, <2>1, DbUnindexedNick DEF CoreOK, IdxType, NickType, DbInv
  <2>3. QED
    BY <1>2, <2>1, <2>2, TryRegisterDb DEF DbInv
<1>3. QED
  BY <1>1, <1>2 DEF NickReg

LEMMA UserRegDb ==
    ASSUME ~DbFaults, CoreOK, IdxInv, DbInv, NEW c \in Client,
           phase[c] = "Registration", UserReg(c)
    PROVE  DbInv'
<1>1. \A m \in LNick : byNick[m] # c
  BY NotIndexed DEF IdxInv
<1>2. NickType(nick) /\ nick[c] \in Nick \cup {NoNick} /\ nick' = nick
  BY DEF CoreOK, NickType, UserReg
<1>3. QED
  BY <1>1, <1>2, TryRegisterDb DEF UserReg, DbInv

LEMMA NickNormalDb ==
    ASSUME ~DbFaults, CoreOK, IndexConsistent, DbInv, NEW c \in Client, NEW n,
           NickNormal(c, n)
    PROVE  DbInv'
BY NoChangeDb, ChangeNicknameDb DEF NickNormal

LEMMA KillNormalDb ==
    ASSUME ~DbFaults, CoreOK, DbInv, NEW c \in Client, NEW n, KillNormal(c, n)
    PROVE  DbInv'
<1>1. CASE NoChange
  BY <1>1, NoChangeDb
<1>2. CASE Get(n) # NoClient /\ QuitClient(Get(n))
  BY <1>2, GetType, QuitClientDb DEF CoreOK
<1>3. QED
  BY <1>1, <1>2 DEF KillNormal

-----------------------------------------------------------------------------
(* Dispatch on the phase, and the events of Server.Run.                    *)

LEMMA AuthorizationCmdDb ==
    ASSUME ~DbFaults, CoreOK, DbInv, NEW cmd \in Command, AuthorizationCmd(cmd)
    PROVE  DbInv'
<1>1. cmd.client \in Client
  BY DEF Command
<1>2. QED
  BY <1>1, QuitClientDb, PassAuthDb DEF AuthorizationCmd

LEMMA RegistrationCmdDb ==
    ASSUME ~DbFaults, CoreOK, IdxInv, DbInv, NEW cmd \in Command,
           RegistrationCmd(cmd)
    PROVE  DbInv'
<1>1. cmd.client \in Client
  BY DEF Command
<1>2. QED
  BY <1>1, QuitClientDb, NickRegDb, UserRegDb DEF RegistrationCmd

LEMMA NormalCmdDb ==
    ASSUME ~DbFaults, CoreOK, IdxInv, DbInv, NEW cmd \in Command, NormalCmd(cmd)
    PROVE  DbInv'
<1> DEFINE c == cmd.client
<1>1. c \in Client
  BY DEF Command
<1>2. CASE cmd.verb \in {"PASS", "USER", "PONG"} /\ NoChange
  BY <1>2, NoChangeDb
<1>3. CASE cmd.verb = "NICK" /\ NickNormal(c, cmd.nick)
  BY <1>1, <1>3, NickNormalDb DEF IdxInv
<1>4. CASE cmd.verb = "QUIT" /\ QuitClient(c)
  BY <1>1, <1>4, QuitClientDb
<1>5. CASE cmd.verb = "KILL" /\ KillNormal(c, cmd.nick)
  BY <1>1, <1>5, KillNormalDb
<1>6. CASE \/ JoinNormal(c, cmd.chan) \/ PartNormal(c, cmd.chan)
           \/ KickNormal(c, cmd.nick, cmd.chan)
           \/ OperNormal(c, cmd.ok) \/ ModeNormal(c, cmd.nick, cmd.ok)
  BY <1>6, OtherNormalFrozen, DbFrozen
<1>7. QED
  BY <1>2, <1>3, <1>4, <1>5, <1>6 DEF NormalCmd

LEMMA NextDb == ~DbFaults /\ IInv /\ DbInv /\ [Next]_vars => DbInv'
<1> SUFFICES ASSUME ~DbFaults, TypeOK, IdxInv, DbInv, [Next]_vars PROVE DbInv'
  BY DEF IInv
<1>1. CoreOK /\ QueueOK
  BY TypeOKSplit
<1>2. CASE ProcessCommand
  <2>1. Head(commands) \in Command
    BY <1>1, <1>2, HeadTailProperties DEF ProcessCommand, QueueOK
  <2>2. QED
    BY <1>1, <1>2, <2>1, AuthorizationCmdDb, RegistrationCmdDb, NormalCmdDb
    DEF ProcessCommand
<1>3. CASE HandleTimeout
  <2>1. Head(timeoutQ) \in Client
    BY <1>1, <1>3, HeadTailProperties DEF HandleTimeout, QueueOK
  <2>2. QED
    BY <1>1, <1>3, <2>1, QuitClientDb DEF HandleTimeout
<1>4. CASE \/ \E c \in Client : Connect(c)
           \/ \E c \in Client : \E cmd \in Input(c) : Submit(c, cmd)
           \/ \E c \in Client : Accept(c)
           \/ \E c \in Client : IdleTimerFires(c) \/ QuitTimerFires(c)
           \/ HandleIdle \/ Shutdown \/ UNCHANGED vars
  <2>1. UNCHANGED <<nick, byNick, db>>
    BY <1>4 DEF Accept, Connect, Submit, IdleTimerFires, QuitTimerFires, HandleIdle,
                Shutdown, vars, clientVars
  <2>2. QED
    BY <2>1, DbFrozen
<1>5. QED
  BY <1>2, <1>3, <1>4 DEF Next

\* The pointwise table is the set DbMirrorsIndex names.
LEMMA MirrorFromDbInv ==
    ASSUME TypeOK, IndexConsistent, DbInv
    PROVE  DbMirrorsIndex
<1> DEFINE Held == {k \in LNick : byNick[k] # NoClient}
<1>1. CoreOK
  BY TypeOKSplit
<1>2. ASSUME NEW r \in db
      PROVE  \E k \in Held : r = <<nick[byNick[k]], byNick[k]>>
  <2>1. PICK m \in Nick, x \in Client : r = <<m, x>>
    BY <1>1 DEF CoreOK
  <2>2. byNick[Lower(m)] = x /\ nick[x] = m
    BY <2>1 DEF DbInv, DbInvOf
  <2>3. Lower(m) \in Held
    BY <2>2, LowerType, ClientAssumption
  <2>4. QED
    BY <2>1, <2>2, <2>3
<1>3. ASSUME NEW k \in Held
      PROVE  <<nick[byNick[k]], byNick[k]>> \in db
  <2>1. byNick[k] \in Client
    BY <1>1 DEF CoreOK
  <2>2. nick[byNick[k]] \in Nick /\ Lower(nick[byNick[k]]) = k
    BY DEF IndexConsistent
  <2>3. QED
    BY <2>1, <2>2 DEF DbInv, DbInvOf
<1>4. QED
  BY <1>2, <1>3 DEF DbMirrorsIndex

\* IInv and DbInv hold in every reachable state when no statement fails.
LEMMA DbInvInvariant ==
    ASSUME ~DbFaults
    PROVE  Spec => [](IInv /\ DbInv)
<1>1. Init => DbInv
  BY LowerType, ClientAssumption DEF Init, DbInv, DbInvOf
<1>2. IInv /\ DbInv /\ [Next]_vars => DbInv'
  BY NextDb
<1>3. QED
  BY <1>1, <1>2, IInvInvariant, PTL DEF Spec

\* Every row names, through the index, the client whose userhost it holds:
\* a row <<n, c>> is present only while byNick maps Lower(n) to c.
LEMMA FindAllFromDbInv ==
    ASSUME CoreOK, DbInv
    PROVE  FindAllSound
<1> SUFFICES ASSUME NEW c \in Client, NEW r \in db, r[2] = c,
                    Get(r[1]) # NoClient
             PROVE  Get(r[1]) = c
  BY DEF FindAllSound, FindAllHost
<1>1. PICK m \in Nick, x \in Client : r = <<m, x>>
  BY DEF CoreOK
<1>2. x = c
  BY <1>1
<1>3. byNick[Lower(m)] = c
  BY <1>1, <1>2 DEF DbInv, DbInvOf
<1>4. QED
  BY <1>1, <1>3 DEF Get

\* Spec 3: when every ClientDB statement succeeds, the userhost table holds a
\* row for exactly the indexed clients, under their current nicks, for every
\* value of the constants (ClientLookupSet.Add and Remove update byNick and
\* the table together; ChangeNickname deletes before it inserts).
THEOREM DbMirrored ==
    ASSUME ~DbFaults
    PROVE  Spec => []DbMirrorsIndex
<1>1. IInv /\ DbInv => DbMirrorsIndex
  BY MirrorFromDbInv DEF IInv, IdxInv
<1>2. QED
  BY <1>1, DbInvInvariant, PTL

\* ClientLookupSet.FindAll by the userhost of client c never returns another
\* client when every ClientDB statement succeeds: each row it finds is
\* looked up again in byNick and leads back to c.  (With a failed DELETE it
\* does return another client; see the db_fault run.)
THEOREM FindAllCorrect ==
    ASSUME ~DbFaults
    PROVE  Spec => []FindAllSound
<1>1. IInv /\ DbInv => FindAllSound
  BY FindAllFromDbInv, TypeOKSplit DEF IInv
<1>2. QED
  BY <1>1, DbInvInvariant, PTL

=============================================================================
