------------------------------ MODULE BanChecks -----------------------------
(***************************************************************************)
(* bans.c, ip.c: whether a ban is in force for a request.  Bans are found  *)
(* by asking the hash table for every prefix of an address, from the       *)
(* longest to the empty one.  A post that is accepted makes a ban of its   *)
(* own, against floods.  BanIndex shows that all bans of a range are       *)
(* found.  Left out: captchas, which are asked for in the same way, bans on *)
(* reports, which are never asked for, and bans that are not enabled.      *)
(***************************************************************************)
EXTENDS Integers, FiniteSets, Powers

CONSTANTS Bits,        \* in a byte, 8 in the code
          Size,        \* bytes in an address of each version
          Addr,        \* addresses of clients and proxies
          BoardId, None,  \* boards, and none: the ban is global
          FloodLimit,  \* FLOOD_LIMIT, 10 seconds in the code
          Duration,    \* of bans made by moderators
          MaxBans, MaxPosts, MaxClock   \* bounds

ASSUME ChecksAssumption ==
    /\ {Bits, FloodLimit, MaxBans, MaxPosts, MaxClock} \subseteq Nat /\ Bits # 0
    /\ Size \in [{"v4", "v6"} -> Nat] /\ Size["v4"] <= Size["v6"]
    /\ \A a \in Addr : /\ DOMAIN a = {"version", "bytes"} /\ a = [x \in DOMAIN a |-> a[x]]
                       /\ a.version \in DOMAIN Size
                       /\ a.bytes \in [1..Size[a.version] -> 0..Shift[Bits] - 1]

VARIABLES made,     \* the bans, as [range, board, type, until]: until is None for good
          clock,    \* time(0)
          last,     \* history: when a post of each address was accepted
          flooded,  \* history: one was accepted too soon after another
          posts     \* posts accepted

checkVars == <<made, clock, last, flooded, posts>>

CheckInit == made = {} /\ clock = 0 /\ last = [a \in {} |-> 0] /\ flooded = FALSE /\ posts = 0

Longest(version) == Bits * Size[version]

\* byte & 0xFF << n: the lowest n bits are cleared.
Masked(byte, n) == byte - (byte % Shift[n])

\* Bytes are counted from 0; for the longest prefix ip_in_range masks one out that is
\* behind the address.
Byte(a, i) == IF i < Size[a.version] THEN a.bytes[i + 1] ELSE 0

InRange(range, a) ==
    /\ a.version = range.ip.version
    /\ \A i \in 0..range.len \div Bits :
          LET low == IF i * Bits + Bits < range.len THEN 0 ELSE Bits - (range.len - i * Bits)
          IN Masked(Byte(a, i), low) = Masked(Byte(range.ip, i), low)

\* Mutant of Normalized: the byte in which the prefix ends is dropped.
Normalized_WholeBytes(range) ==
    [range EXCEPT !.ip.bytes =
        [i \in DOMAIN @ |-> IF i <= range.len \div Bits THEN @[i] ELSE 0]]

\* normalize_ip_range
Normalized(range) ==
    LET whole == range.len \div Bits
        low   == Bits - (range.len - whole * Bits)
    IN [range EXCEPT !.ip.bytes =
           [i \in DOMAIN @ |-> IF i <= whole THEN @[i]
                               ELSE IF i = whole + 1 THEN Masked(@[i], low) ELSE 0]]

\* find_bans asks for every prefix of the address.  ip_range_eq and ip_range_hash look at
\* normalised ranges.
FindBans(a) == LET asked == {Normalized([ip |-> a, len |-> n]) : n \in 0..Longest(a.version)}
               IN {x \in made : Normalized(x.range) \in asked}

InTime(x) == x.until = None \/ clock <= x.until

\* is_banned and is_flood_limited, as far as they answer 0 or not.
Banned(a, b, type) == \E x \in FindBans(a) : /\ x.type = type /\ InTime(x)
                                             /\ x.board \in {None, b}

AnyIpAffected(ips, b, type) == \E a \in ips : Banned(a, b, type)

\* Mutant of Purged: bans are gone in the second in which they still hold.
Purged_Early == {x \in made : x.until = None \/ clock < x.until}

\* purge_expired_bans
Purged == {x \in made : x.until = None \/ clock <= x.until}

\* post_page_finish, past the forms: ips are the client and what its proxies name.  The
\* prefix of the ban is 32 for both versions: "FIXME: support IPV6".
Post(a, ips, b) ==
    /\ posts < MaxPosts
    /\ ~AnyIpAffected(ips \cup {a}, b, "blacklist")
    /\ ~AnyIpAffected(ips \cup {a}, b, "flood")
    /\ made' = Purged \cup {[range |-> [ip |-> a, len |-> Longest("v4")], board |-> None,
                             type |-> "flood", until |-> clock + FloodLimit]}
    /\ last' = [x \in DOMAIN last \cup {a} |-> IF x = a THEN clock ELSE last[x]]
    /\ flooded' = (flooded \/ (a \in DOMAIN last /\ clock <= last[a] + FloodLimit))
    /\ posts' = posts + 1
    /\ UNCHANGED clock

\* A moderator makes a ban, of a prefix of any length.
MakeBan(range, b, d) ==
    /\ Cardinality({x \in made : x.type = "blacklist"}) < MaxBans
    /\ made' = made \cup {[range |-> range, board |-> b, type |-> "blacklist",
                           until |-> IF d < 0 THEN None ELSE clock + d]}
    /\ UNCHANGED <<clock, last, flooded, posts>>

\* A moderator deletes one; those whom a flood ban held back are free to post.
Unban(x) ==
    /\ made' = made \ {x}
    /\ last' = [a \in {y \in DOMAIN last : x.type = "flood" => x \notin FindBans(y)} |-> last[a]]
    /\ UNCHANGED <<clock, flooded, posts>>

TickClock == clock < MaxClock /\ clock' = clock + 1 /\ UNCHANGED <<made, last, flooded, posts>>

\* scan_uint takes any number after the slash, for either version.  From the first length
\* left out here normalize_ip_range writes behind its sixteen bytes of mask, and numbers
\* from 2^31 are negative as int32; both are undefined.
BanRanges == [ip : Addr, len : 0..Longest("v6") + Bits - 1]

CheckNext ==
    \/ \E a, proxy \in Addr, b \in BoardId : Post(a, {proxy}, b)
    \/ \E range \in BanRanges, b \in BoardId \cup {None}, d \in Duration : MakeBan(range, b, d)
    \/ \E x \in made : Unban(x)
    \/ TickClock

CheckSpec == CheckInit /\ [][CheckNext]_checkVars

-----------------------------------------------------------------------------
\* The first len bits of the two addresses agree.
Covers(range, a) ==
    LET Bit(x, k) == (x.bytes[k \div Bits + 1] \div Shift[Bits - 1 - (k % Bits)]) % 2
    IN /\ a.version = range.ip.version
       /\ \A k \in 0..range.len - 1 : Bit(a, k) = Bit(range.ip, k)

Fits(range) == range.len <= Longest(range.ip.version)

\* The bans found for an address are those that cover it, whatever the length of their
\* prefix, the bits behind it and the version; and ip_in_range, which finds the post that
\* a ban is about, agrees.  A ban that is longer than its address is stored, but
\* find_bans never asks for its length: it is found for nobody.
Enforced == \A a \in Addr :
               /\ FindBans(a) = {x \in made : Fits(x.range) /\ Covers(x.range, a)}
               /\ \A x \in made : Fits(x.range) => (InRange(x.range, a) <=> Covers(x.range, a))

\* "Number of seconds to wait between creating two posts": two posts of an address are
\* further apart than that, unless a moderator lifts the ban.
FloodLimited == ~flooded
=============================================================================
