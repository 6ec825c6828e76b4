--------------------------- MODULE MCMemorySearch ---------------------------
(* Model-checking instance of MemorySearch: a person with two memories of  *)
(* two namespaces, a composite of both, a third memory of another site     *)
(* with the text of the first, a row of a workspace and a row of somebody  *)
(* else.  Links and a chain join rows across all borders.                  *)
EXTENDS MemorySearch

CONSTANTS job, home, both, copy, shared, foreign, chat, mail,
          acme, berlin, other

MCRow ==
  LET row(user, workspace, agent, visibility, site, ns, created, print, ms) ==
        [user |-> user, workspace |-> workspace, agent |-> agent,
         visibility |-> visibility, grants |-> {}, site |-> site,
         namespace |-> ns, created |-> created, print |-> print,
         members |-> ms]
  IN [m \in Memories |->
        CASE m = job -> row("u", None, None, None, chat, <<"p", "a">>, 1, 1, {})
          [] m = home -> row("u", None, None, None, chat, <<"q">>, 2, 2, {})
          [] m = both ->
               row("u", None, None, None, chat, <<>>, 2, 3, {job, home})
          [] m = copy -> row("u", None, None, None, mail, <<"p">>, 9, 1, {})
          [] m = shared ->
               row("u", "w", "bot", "agent_only", chat, <<"p">>, 1, 4, {})
          [] m = foreign ->
               row("v", None, None,
                   None, chat, <<"p">>, 1, 2, {})]

MCLinks == {<<job, shared>>, <<home, foreign>>, <<copy, both>>}

MCEntity ==
  (acme :> [user |-> "u", memories |-> {job, copy, shared}])
  @@ (berlin :> [user |-> "u", memories |-> {home}])
  @@ (other :> [user |-> "v", memories |-> {foreign}])

MCRelations == {<<acme, berlin>>}

MCChains == {{job, home, shared}, {copy, foreign}}

Ask(kind, site, scope, select) ==
  [kind |-> kind, user |-> "u", site |-> site, scope |-> scope,
   select |-> select, workspace |-> None, caller |-> None, agents |-> "all"]

AskWorkspace(caller, agents) ==
  [kind |-> "workspace", user |-> "u", site |-> None, scope |-> <<>>,
   select |-> "last", workspace |-> "w", caller |-> caller,
   agents |-> agents]

MCQueries ==
  {Ask("search", None, <<"p">>, "last"), Ask("fast", chat, <<>>, "first")}
    \cup {AskWorkspace("bee", "all"), AskWorkspace("bot", "others"),
          AskWorkspace("bot", "self"), AskWorkspace("bee", "bot"),
          Ask("asOf", chat, <<>>, "last"), Ask("uri", None, <<>>, "last")}

=============================================================================
