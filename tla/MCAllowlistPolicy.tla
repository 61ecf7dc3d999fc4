-------------------------- MODULE MCAllowlistPolicy --------------------------
(***************************************************************************)
(* Four policy files: an account of each family, a second account of the   *)
(* first family, and a short-lived file that reuses a version.             *)
(***************************************************************************)
EXTENDS AllowlistPolicy, TLC

CONSTANTS c1, c2, o1, o2, a, b

File(evm, solana, version, expiresAt) ==
  [accounts |-> "evm" :> evm @@ "solana" :> solana,
   version |-> version, expiresAt |-> expiresAt]
FourFiles == {File(a, None, 1, 9), File(None, b, 2, 9), File(b, None, 3, 9),
              File(a, b, 3, 1)}
OneOfEach == o1 :> "direct" @@ o2 :> "gasless"
EvmOfA == [o \in Ops |-> [family |-> "evm", account |-> a]]
CommandsAreAlike == Permutations(Commands)

=============================================================================
