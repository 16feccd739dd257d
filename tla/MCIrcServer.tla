---------------------------- MODULE MCIrcServer ----------------------------
(* Small instance of IrcServer: two connections, nicks "alice", "Alice" and *)
(* "bob" ("Alice" and "alice" collide in the index), one stored channel and *)
(* one channel created on demand.                                          *)
EXTENDS IrcServer, TLC

CONSTANTS c1, c2

MCClient == {c1, c2}

MCNick == {"alice", "Alice", "bob"}

MCLower(n) == IF n = "Alice" THEN "alice" ELSE n

MCChan == {"#p", "#x"}

MCPersistent == {"#p"}

\* Registration and quitting: the verbs that move the nickname index.
IndexVerbs == {"PASS", "NICK", "USER", "QUIT"}

\* Channel membership: JOIN, PART, KICK and leaving by QUIT.
ChannelVerbs == {"NICK", "USER", "JOIN", "PART", "KICK", "QUIT"}

\* Registration and keep-alive: PONG answers the server's PING.
HeartbeatVerbs == {"NICK", "USER", "PONG"}

\* Keep-alive with operators: another client's KILL also ends a silent one.
OperVerbs == {"NICK", "USER", "OPER", "KILL", "MODE"}

\* Registration and QUIT: a QUIT waits behind the other client's commands.
QuitVerbs == {"NICK", "USER", "QUIT"}

\* Two nicknames that differ beyond case.
MCNick2 == {"alice", "bob"}

MCSymmetry == Permutations(MCClient)

=============================================================================
