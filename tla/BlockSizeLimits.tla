-------------------------- MODULE BlockSizeLimits --------------------------
(***************************************************************************)
(* The adjustable block size limit                                         *)
(* (legacy_refactored/src/block_size_limits.rs) as the header-input API    *)
(* drives it: a claim that times out lowers the limit, one served in time  *)
(* may raise it.  Claims run concurrently.  The limit and the time of its  *)
(* last increment are one atomic word and fetch_update is one step, but    *)
(* the test that an increment is due is a load of its own before it.       *)
(***************************************************************************)
EXTENDS Naturals

CONSTANTS
    Claims,               \* concurrent claim_block_header_input requests
    protocol_max_block_size,
    increment_period,
    MAX_BLOCK_SIZE_FLOOR,
    Word,                 \* 2^64: the sum in an increment wraps around
    MaxTime               \* bound: ticks of the clock

ASSUME LimitsAssumption ==
    /\ protocol_max_block_size \in Nat /\ protocol_max_block_size < Word
    /\ MAX_BLOCK_SIZE_FLOOR \in Nat /\ MAX_BLOCK_SIZE_FLOOR < Word
    /\ increment_period \in Nat /\ Word \in Nat /\ MaxTime \in Nat

MAX_BLOCK_SIZE_CHANGE_DIVISOR == 10

VARIABLES
    max_block_size, last_block_size_increment,   \* MutableState
    now,         \* the clock
    due          \* per claim: the increment it found to be due

size_vars == <<max_block_size, last_block_size_increment, now, due>>

\* new: a new builder starts at the protocol's maximum.
SizeInit ==
    /\ max_block_size = protocol_max_block_size
    /\ last_block_size_increment = 0
    /\ now = 0
    /\ due = [c \in Claims |-> "none"]

tick ==
    /\ now < MaxTime
    /\ now' = now + 1
    /\ UNCHANGED <<max_block_size, last_block_size_increment, due>>

----------------------------------------------------------------------------
LowerOf(m, n) == IF m <= n THEN m ELSE n
UpperOf(m, n) == IF m <= n THEN n ELSE m

\* previous.div_ceil(MAX_BLOCK_SIZE_CHANGE_DIVISOR)
change(size) ==
    (size + MAX_BLOCK_SIZE_CHANGE_DIVISOR - 1) \div MAX_BLOCK_SIZE_CHANGE_DIVISOR

\* Slip: the division rounds down.
incremented_rounded(size) ==
    LowerOf((size + size \div MAX_BLOCK_SIZE_CHANGE_DIVISOR) % Word, protocol_max_block_size)

\* Slip: neither the protocol's maximum nor the word's width is looked at.
incremented_unbounded(size) == size + change(size)

\* Slip: the protocol's maximum is not looked at.
incremented_uncapped(size) == (size + change(size)) % Word

incremented(size) == LowerOf((size + change(size)) % Word, protocol_max_block_size)

\* Without saturating_sub: no change is larger than the size.
decremented(size) == UpperOf(size - change(size), MAX_BLOCK_SIZE_FLOOR)

\* The response came in time and with some margin.  A truncated block forces
\* the increment, otherwise the period must have elapsed.
claim_served(c, truncated) ==
    /\ due[c] = "none"
    /\ truncated \/ now - last_block_size_increment >= increment_period
    /\ due' = [due EXCEPT ![c] = IF truncated THEN "forced" ELSE "periodic"]
    /\ UNCHANGED <<max_block_size, last_block_size_increment, now>>

\* The fetch_update of try_increment_block_size.
increment_block_size(c) ==
    /\ due[c] # "none"
    /\ max_block_size' = incremented(max_block_size)
    /\ last_block_size_increment' = now
    /\ due' = [due EXCEPT ![c] = "none"]
    /\ UNCHANGED now

\* The request timed out.
decrement_block_size ==
    /\ max_block_size' = decremented(max_block_size)
    /\ UNCHANGED <<last_block_size_increment, now, due>>

SizeNext ==
    \/ tick
    \/ \E c \in Claims, truncated \in BOOLEAN : claim_served(c, truncated)
    \/ \E c \in Claims : increment_block_size(c)
    \/ decrement_block_size

SizeSpec == SizeInit /\ [][SizeNext]_size_vars

----------------------------------------------------------------------------
(* Properties *)

SizeTypeOK ==
    /\ max_block_size \in 0 .. Word - 1
    /\ now \in Nat
    /\ last_block_size_increment \in 0 .. now
    /\ due \in [Claims -> {"none", "forced", "periodic"}]

\* The sum in an increment does not wrap around.
Headroom == protocol_max_block_size + change(protocol_max_block_size) < Word
            /\ MAX_BLOCK_SIZE_FLOOR + change(MAX_BLOCK_SIZE_FLOOR) < Word

\* However claims interleave, the limit stays between the floor and the
\* protocol's maximum, whichever of them is the larger.
SizeWithinLimits ==
    max_block_size \in
        LowerOf(protocol_max_block_size, MAX_BLOCK_SIZE_FLOOR)
            .. UpperOf(protocol_max_block_size, MAX_BLOCK_SIZE_FLOOR)

\* The limit recovers: if claims time out only finitely often and increments
\* never cease, it returns to the protocol's maximum and stays there.
Recovers ==
    (/\ <>[][~decrement_block_size]_size_vars
     /\ []<><<\E c \in Claims : increment_block_size(c)>>_size_vars)
    => <>[](max_block_size = protocol_max_block_size)

============================================================================
