-------------------------- MODULE MCWebhookOutbox --------------------------
(* Instances of WebhookOutbox for TLC.                                     *)
EXTENDS WebhookOutbox

CONSTANTS e1, e2, d1, d2, d3, s1, s2

\* One retry, one clock unit later; claims go stale after one unit.
MCBackoff == <<1>>
MCWriteKind == {"address"}
MCAll == {"address", EndpointKind, DeliveryKind}
\* An endpoint takes everything or address events only.
MCFilters == {MCAll, {"address"}}
MCAddressOnly == {{"address"}}
=============================================================================
