------------------------- MODULE MCContextSelection -------------------------
(* A group conversation and a private one, each over a store whose records  *)
(* differ in scope, visibility and owner.  In one scene the prompt can be   *)
(* filled to the last token.                                                *)
EXTENDS ContextSelection
CONSTANTS m1, m2, m3, u1, u2, g1, g2, c1, c2, p1, p2, p3

MCMemory == {m1, m2, m3}

Absent == [scope |-> "global", vis |-> "public", user |-> None, group |-> None, conv |-> None,
           kind |-> "fact", state |-> "absent", revision |-> 0, size |-> 1, match |-> 0,
           near |-> FALSE, sure |-> 0]
Record(scope, vis, user, group, conv) ==
    [Absent EXCEPT !.scope = scope, !.vis = vis, !.user = user, !.group = group, !.conv = conv,
                   !.state = "active", !.revision = 1, !.near = TRUE]

OwnPublic == [Record("user", "same_user_any_context", u1, None, None) EXCEPT !.match = 3]
OwnPrivate == [Record("user", "private_only", u1, None, None) EXCEPT !.kind = "summary", !.size = 2]
OwnHere == [Record("user", "same_group_only", u1, g1, None) EXCEPT !.kind = "summary"]
OwnElsewhere == [Record("user", "same_group_only", u1, g2, None) EXCEPT !.match = 2]
OwnAdmin == Record("user", "owner_admin_only", u1, None, None)
Others == [Record("user", "same_user_any_context", u2, None, None) EXCEPT !.match = 3]
Summary == [Record("group", "same_group_only", None, g1, None)
             EXCEPT !.kind = "summary", !.match = 1, !.size = 2, !.sure = 1]
OtherSummary == [Record("group", "same_group_only", None, g2, None) EXCEPT !.kind = "summary"]
OfConversation == [Record("conversation", "same_user_any_context", None, None, c1) EXCEPT !.match = 1]
Public == [Record("global", "public", None, None, None) EXCEPT !.state = "disabled"]
ForAdmins == [Record("global", "owner_admin_only", None, None, None) EXCEPT !.match = 3]

Three(a, b, c) == [m \in MCMemory |-> IF m = m1 THEN a ELSE IF m = m2 THEN b ELSE c]

Message(conv, platform, speaker, bot, text) ==
    [conv |-> conv, platform |-> platform, speaker |-> speaker, bot |-> bot, text |-> text,
     name |-> 0]
\* p2 names two messages of the group, one of which is older than the window.
\* p3 was written by someone whose name alone fills a prompt.
Chat == << Message(c1, p1, u2, FALSE, 4), Message(c1, p2, u1, FALSE, 1),
           Message(c2, p1, u2, FALSE, 1), Message(c1, p2, None, TRUE, 1),
           [Message(c1, p3, u2, FALSE, 1) EXCEPT !.name = 20],
           Message(c1, None, u2, FALSE, 2), Message(c1, None, None, TRUE, 1) >>

GroupScene(replyTo, size, corpus) ==
    [type |-> "group", user |-> u1, group |-> g1, conv |-> c1, replyTo |-> replyTo,
     chat |-> Chat, current |-> Message(c1, None, u1, FALSE, size), corpus |-> corpus]
PrivateScene(user, size, corpus) ==
    [type |-> "private", user |-> user, group |-> None, conv |-> c2, replyTo |-> p1,
     chat |-> Chat, current |-> Message(c2, None, user, FALSE, size), corpus |-> corpus]

MCScenes ==
    { GroupScene(p1, 3, Three(OwnHere, Summary, OwnElsewhere)),
      GroupScene(p2, 1, Three(OwnPrivate, Others, OfConversation)),
      GroupScene(p1, 30, Three(OtherSummary, OwnAdmin, Absent)),
      GroupScene(p3, 1, Three(Absent, Absent, Absent)),
      PrivateScene(u1, 3, Three(OwnPrivate, OwnHere, Public)),
      PrivateScene(u1, 10, Three(OwnPublic, Summary, ForAdmins)),
      PrivateScene(None, 3, Three(OwnPublic, Public, Absent)) }
=============================================================================
