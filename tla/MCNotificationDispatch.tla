----------------------- MODULE MCNotificationDispatch -----------------------
(* Instances of NotificationDispatch for TLC.                              *)
EXTENDS NotificationDispatch, TLC

CONSTANTS p1, p2, post, r1, r2, mail1, mail2, phone

ResolversAlike == Permutations({r1, r2})
=============================================================================
