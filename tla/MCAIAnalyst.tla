---------------------------- MODULE MCAIAnalyst ----------------------------
EXTENDS AIAnalyst, TLC

Reply(bannedField) ==
  [f \in TextFields \cup {"suggested_action", "uncertainty"} |->
     IF f = "suggested_action" THEN "HOLD"
     ELSE IF f = "uncertainty" THEN "HIGH"
     ELSE IF f = bannedField THEN {"buy now"} ELSE {"momentum fades"}]

Without(reply, field) == [f \in DOMAIN reply \ {field} |-> reply[f]]

\* One good reply; banned text in a plain field and in a list; a field too
\* many, a field missing, and an action that does not exist.
MCReplies ==
  {Reply("none"), Reply("thesis"), Reply("risks"),
   [f \in {"stop_loss"} |-> "99"] @@ Reply("none"),
   Without(Reply("none"), "uncertainty"),
   [Reply("none") EXCEPT !.suggested_action = "EXECUTE"]}

MCBanned == {"buy now"}

=============================================================================
