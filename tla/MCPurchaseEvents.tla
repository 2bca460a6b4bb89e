-------------------------- MODULE MCPurchaseEvents --------------------------
EXTENDS MCCheckout, PurchaseEvents
=============================================================================
