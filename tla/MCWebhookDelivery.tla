---- MODULE MCWebhookDelivery ----
EXTENDS WebhookDelivery

Row(on, url) == [active |-> on, kinds |-> Kind, project |-> Null, url |-> url]

\* Subscriptions that are on and off, at any receiver.
AnyUrl == {Row(on, u) : on \in BOOLEAN, u \in Url}

====
