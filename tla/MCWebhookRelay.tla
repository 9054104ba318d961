--------------------------- MODULE MCWebhookRelay ---------------------------
EXTENDS WebhookRelay
CONSTANTS w1, w2, p1, p2, Blocks, Retries
MCMaxBlocks == [w \in Webhook |-> Blocks]
MCMaxRetries == [w \in Webhook |-> Retries]
Symmetry == Permutations(Webhook) \cup Permutations(Process)
=============================================================================
