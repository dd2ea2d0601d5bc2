---------------------------- MODULE MCProviders ----------------------------
(* Providers on a small instance: two providers and a file that is none.   *)
EXTENDS Providers

CONSTANTS a, b
TwoProviders == {a, b}

Wasm(n)  == [stem |-> n, wasm |-> TRUE]
Other(n) == [stem |-> n, wasm |-> FALSE]
Archives == {<<Wasm(a), Wasm(b)>>, <<Wasm(b)>>, <<Other(b), Wasm(a)>>}
=============================================================================
