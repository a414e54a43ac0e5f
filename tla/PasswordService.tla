--------------------------- MODULE PasswordService ---------------------------
(***************************************************************************)
(* services/password_service.rs: generate_password and what it draws with. *)
(* A byte of the password is its class: the four character sets are        *)
(* disjoint and without blanks, and the policy sees nothing else of it.    *)
(* Lengths, the number of classes and the width of the random word are     *)
(* smaller than in the code, which has 16..128 bytes and 32 bits.          *)
(***************************************************************************)
EXTENDS Naturals, Sequences, FiniteSets, SequencesExt

CONSTANTS
    MinLength, MaxLength, DefaultLength,
    Width,        \* bits of a random word
    MaxShuffled   \* bound on the length whose arrangements are counted

ASSUME LengthsAssumption ==
    /\ 4 < MinLength /\ MinLength <= DefaultLength /\ DefaultLength <= MaxLength
    /\ MinLength \in Nat /\ DefaultLength \in Nat /\ MaxLength \in Nat
    /\ Width \in Nat \ {0} /\ MaxShuffled \in Nat
\* Arithmetic that the provers cannot do and TLC evaluates.
ASSUME WordAssumption == 2^Width \in Nat /\ 2^Width > 1

VARIABLES
    wanted,    \* the requested length
    password,  \* the bytes so far
    index,     \* the shuffle's position, 0 when it is over
    outcome    \* "none", "running", "ok", or what failed: "invalid length",
               \* "no randomness", "refused"

passwordVars == <<wanted, password, index, outcome>>

Classes == {"lower", "upper", "digit", "symbol"}
MAX     == 2^Width - 1

-----------------------------------------------------------------------------
(* Drawing.                                                                 *)

\* Mutant: every word is accepted.
zone_All(bound) == MAX + 1

\* Words below the largest multiple of bound that fits are accepted.
zone(bound) == MAX - (MAX % bound)

\* The words with which random_index returns i; the others are drawn again.
words_for(bound, i) == {w \in 0..MAX : w < zone(bound) /\ w % bound = i}

\* The shuffle draws its partner from the positions up to its own, own included.
swap_bound(i) == i + 1

\* swap, with the code's positions, which start at 0.
swap(s, i, j) == [s EXCEPT ![i + 1] = s[j + 1], ![j + 1] = s[i + 1]]

\* The whole shuffle of s, given the partner drawn at each position.
shuffled(s, partner) ==
    LET after[k \in 0..(Len(s) - 1)] ==
            IF k = 0 THEN s ELSE swap(after[k - 1], Len(s) - k, partner[Len(s) - k])
    IN  after[Len(s) - 1]
partners(n) ==
    {p \in [1..(n - 1) -> 0..(n - 1)] : \A i \in 1..(n - 1) : p[i] < swap_bound(i)}

-----------------------------------------------------------------------------
(* The policy.                                                              *)

validate_length(n) == MinLength <= n /\ n <= MaxLength

validate_password_policy(p) == validate_length(Len(p)) /\ ToSet(p) = Classes

-----------------------------------------------------------------------------
(* generate_password, one draw at a time.                                   *)

PasswordInit ==
    wanted = 0 /\ password = <<>> /\ index = 0 /\ outcome = "none"

Generate_Start ==
    /\ outcome = "none"
    /\ \E length \in 0..(MaxLength + 1) :
          /\ wanted' = IF length = 0 THEN DefaultLength ELSE length
          /\ IF validate_length(wanted')
               THEN /\ password' = <<"lower", "upper", "digit", "symbol">>
                    /\ outcome' = "running"
               ELSE password' = <<>> /\ outcome' = "invalid length"
    /\ index' = 0

Generate_Fill ==
    /\ outcome = "running" /\ index = 0 /\ Len(password) < wanted
    /\ \E c \in Classes : password' = Append(password, c)
    /\ index' = IF Len(password') = wanted THEN wanted - 1 ELSE 0
    /\ UNCHANGED <<wanted, outcome>>

\* The last swap is followed by the check of the policy.
Generate_Shuffle ==
    /\ outcome = "running" /\ index > 0
    /\ \E j \in 0..(swap_bound(index) - 1) : password' = swap(password, index, j)
    /\ index' = index - 1
    /\ outcome' = IF index' > 0 THEN "running"
                  ELSE IF validate_password_policy(password') THEN "ok" ELSE "refused"
    /\ UNCHANGED wanted

\* The system has no random bytes for one of the draws; what was drawn is dropped.
Generate_Fails ==
    /\ outcome = "running"
    /\ password' = <<>> /\ index' = 0 /\ outcome' = "no randomness"
    /\ UNCHANGED wanted

PasswordNext == Generate_Start \/ Generate_Fill \/ Generate_Shuffle \/ Generate_Fails

-----------------------------------------------------------------------------
(* Property.                                                                *)

Arrangements(n) == {s \in [1..n -> 1..n] : \A i, j \in 1..n : s[i] = s[j] => i = j}

\* A generated password is never refused by the policy it is checked against,
\* every index below a bound is drawn with the same number of random words (and
\* with at least one, so the loop ends), and the shuffle reaches each
\* arrangement with exactly one series of draws: no order of the bytes is
\* likelier than another.
GeneratorIsFair ==
    /\ outcome # "refused"
    /\ outcome = "running" /\ index > 0 /\ index = wanted - 1 =>
         /\ \A b \in 1..MAX : \A i \in 0..(b - 1) :
               /\ words_for(b, i) # {}
               /\ Cardinality(words_for(b, i)) = Cardinality(words_for(b, 0))
         /\ \A n \in 2..MaxShuffled :
               /\ {shuffled([i \in 1..n |-> i], p) : p \in partners(n)} = Arrangements(n)
               /\ Cardinality(partners(n)) = Cardinality(Arrangements(n))
=============================================================================
