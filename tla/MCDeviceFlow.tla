---------------------------- MODULE MCDeviceFlow ----------------------------
(* DeviceFlow for TLC: negative, absent, small and excessive answers. *)
EXTENDS DeviceFlow

SomeIntervals == {-1, 0, 1, 2, 9}
SomeLifetimes == {-1, 0, 1, 4, 99}
OwnChoices == {-1, 0, 3, 7}

=============================================================================
