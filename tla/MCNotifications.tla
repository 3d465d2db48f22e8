-------------------------- MODULE MCNotifications --------------------------
EXTENDS Notifications, TLC

CONSTANTS h1, h2, s1, s2

MCSwapHash == s1 :> h1 @@ s2 :> h2
=============================================================================
