-------------------------- MODULE MCAppletSession ---------------------------
(* Small instances of AppletSession for TLC: addresses are interchangeable, *)
(* and so are paths when all devices are of one kind.                       *)
EXTENDS AppletSession, TLC

CONSTANTS a1, a2, p1, p2, mUnit, bUnit, coinA, coinB

AddrSymmetry == Permutations({a1, a2})
PathSymmetry == Permutations({p1, p2})

(* Of the calls that do the same to the session, one; a PIN is sent in      *)
(* contexts of either type.                                                 *)
CacheCalls == {"VerifyPIN", "GetDeviceInfo"}
DeviceCalls == {"CommandBTC", "CommandETH", "BuildERC20AbiETH", "IsBootLoader", "EnumSupportCoins"}
EveryCall == CommandOps \cup HostOps \cup MainDomainOps \cup EnumOps
=============================================================================
