----------------------------- MODULE MCInbound -----------------------------
EXTENDS Inbound

From(s, body) == [group |-> FALSE, from |-> s, atBot |-> FALSE, media |-> FALSE,
                  namedOwner |-> Unknown, body |-> body]
Protobuf(m) == [connData |-> [form |-> "protobuf", message |-> m],
                rawData |-> Nothing, content |-> Nothing]
Json(m) == [connData |-> Nothing, rawData |-> [form |-> "json", message |-> m],
            content |-> Nothing]

MCMessages ==
    {From(Owner, "issueLog"), From("user", "upgrade"), From("user", "empty"),
     [From("user", "text") EXCEPT !.media = TRUE],
     [From(Owner, "groupCommand") EXCEPT !.group = TRUE, !.atBot = TRUE,
                                         !.namedOwner = Owner]}
MCPushes == {Protobuf(m) : m \in MCMessages}

MCUpgradeMessages ==
    {From(Owner, "upgrade"), [From(Owner, "upgradeTo") EXCEPT !.namedOwner = Owner]}
MCUpgradePushes == {Json(m) : m \in MCUpgradeMessages}
=============================================================================
