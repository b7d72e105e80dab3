---------------------------------- MODULE Fetch ----------------------------------
(***************************************************************************)
(* The download of an archive from a link (backend/autowright/transfer.py,   *)
(* resolve_url, _github_api, fetch_archive): up to two listing calls find    *)
(* the archive's address, then it is read.  One deadline is handed through,  *)
(* but it is looked at only when an open begins and between the chunks of a   *)
(* body: while a response is opened, every wait is given the socket timeout  *)
(* anew.  The server answers as it likes, late or short; a redirect may lead *)
(* anywhere.                                                                 *)
(***************************************************************************)
EXTENDS Integers

CONSTANTS Deadline,     \* FETCH_DEADLINE_S
          ReadTimeout,  \* FETCH_TIMEOUT
          SizeCap,          \* the size limit, in chunks
          Hops,         \* bound: redirects followed
          Horizon       \* bound: how late an open may still be waiting

ASSUME FetchAssumption ==
  Deadline \in Nat \ {0} /\ ReadTimeout \in Nat /\ SizeCap \in Nat /\ Horizon \in Nat

VARIABLES step,         \* resolving, opening, reading, done, refused
          link,         \* direct, release or repo: what was pasted
          asking,       \* archive, or the listing being read
          spent,        \* time since the import began
          limit,        \* when its deadline is
          patience,     \* the open response's socket timeout
          got, declared,\* chunks read; the Content-Length, None for none
          hops,
          came,       \* ghost: when the response that is read came, if one has
          plain         \* ghost: a request went out that was not https

fetchVars == <<step, link, asking, spent, limit, patience, got, declared, hops, came, plain>>

NoLength == -1
NotCome == -1
Floor == 1              \* the shortest timeout an open is given
Least(a, b) == IF a < b THEN a ELSE b
Most(a, b) == IF a > b THEN a ELSE b

FetchInit ==
  /\ step = "resolving" /\ link \in {"direct", "release", "repo", "page", "plain"}
  /\ asking = "archive" /\ spent = 0 /\ limit = Deadline /\ patience = 0
  /\ got = 0 /\ declared = NoLength /\ hops = 0
  /\ came = NotCome /\ plain = FALSE

Refused ==
  step' = "refused" /\ UNCHANGED <<asking, limit, patience, got, declared, hops, came, plain>>

(* open_timeout: what remains of the deadline, within the read timeout.      *)
FreshLimit == spent + Deadline
NextLimit == limit
Patience(t) == Most(Floor, Least(ReadTimeout, limit - t))

(* A request is sent: to the listing, or to the archive's own address.       *)
Asks(what, t) ==
  /\ step' = "opening" /\ asking' = what
  /\ patience' = Patience(t) /\ got' = 0 /\ hops' = 0
  /\ declared' \in {NoLength} \cup (1..SizeCap) /\ limit' = NextLimit /\ came' = NotCome

Resolves ==
  /\ step = "resolving"
  /\ CASE link = "direct" -> Asks("archive", spent)
       [] link \in {"release", "repo"} -> Asks("latest", spent)
       [] OTHER -> /\ step' = "refused"
                   /\ UNCHANGED <<asking, limit, patience, got, declared, hops, came>>
  /\ UNCHANGED <<link, spent, plain>>

(* One of the waits of an open: for the connection, the TLS handshake, some   *)
(* bytes of the headers, or of the body of a redirect that was followed.  The *)
(* timeout is the same for each, and nothing adds them up.                    *)
Waits(d) ==
  /\ step = "opening" /\ d <= patience /\ spent + d <= Horizon
  /\ spent' = spent + d
  /\ UNCHANGED <<step, link, asking, limit, patience, got, declared, hops, came, plain>>

(* A redirect is looked at before it is followed; the hop it leads to is       *)
(* opened with the timeout of the first.                                      *)
FollowsAnything(https) == TRUE
MayFollow(https) == https
Redirected(https) ==
  /\ step = "opening" /\ hops < Hops
  /\ IF MayFollow(https)
     THEN /\ hops' = hops + 1 /\ plain' = (plain \/ ~https)
          /\ UNCHANGED <<step, asking, limit, patience, got, declared, came>>
     ELSE Refused
  /\ UNCHANGED <<link, spent>>

(* The last of the headers has come.                                          *)
Opens(d) ==
  /\ step = "opening" /\ d <= patience
  /\ step' = "reading" /\ spent' = spent + d /\ came' = spent + d
  /\ UNCHANGED <<link, asking, limit, patience, got, declared, hops, plain>>

(* No byte within the timeout, an error status, a closed connection.         *)
Fails(d) == /\ step \in {"opening", "reading"} /\ d <= patience
            /\ Refused /\ spent' = spent + d /\ UNCHANGED link

OnlyLate(d) == spent + d > limit
TooMuch(d) == spent + d > limit \/ got + 1 > SizeCap
(* read1 gives what has arrived: the deadline and the size are checked then. *)
ReadsSome(d) ==
  /\ step = "reading" /\ d <= patience
  /\ spent' = spent + d
  /\ IF TooMuch(d) THEN Refused
     ELSE got' = got + 1 /\ UNCHANGED <<step, asking, limit, patience, declared, hops, came, plain>>
  /\ UNCHANGED link

(* The end of the body: one shorter than it was declared is a failure.       *)
NeverShort == FALSE
Short == declared # NoLength /\ got < declared
EndOfArchive(d) ==
  /\ step = "reading" /\ asking = "archive" /\ d <= patience
  /\ spent' = spent + d /\ step' = IF Short THEN "refused" ELSE "done"
  /\ UNCHANGED <<link, asking, limit, patience, got, declared, hops, came, plain>>

(* A listing names the asset, which must be https itself; a repository       *)
(* without one in its latest release is listed once more.                    *)
EndOfListing(d, found, https) ==
  /\ step = "reading" /\ asking # "archive" /\ d <= patience /\ spent' = spent + d
  /\ IF Short \/ (found /\ ~https) \/ (~found /\ (link = "release" \/ asking = "contents"))
     THEN Refused
     ELSE Asks(IF found THEN "archive" ELSE "contents", spent + d) /\ UNCHANGED plain
  /\ UNCHANGED link

FetchNext == \/ Resolves
             \/ \E https \in BOOLEAN : Redirected(https)
             \/ \E d \in 0..ReadTimeout : \/ Waits(d) \/ Opens(d) \/ Fails(d)
                                          \/ ReadsSome(d) \/ EndOfArchive(d)
                                          \/ \E f, https \in BOOLEAN : EndOfListing(d, f, https)

FetchSpec == FetchInit /\ [][FetchNext]_fetchVars

FetchTypeOK == /\ step \in {"resolving", "opening", "reading", "done", "refused"}
               /\ asking \in {"archive", "latest", "contents"} /\ got \in 0..SizeCap

(* However the server trickles a body, the reading of it ends by the one       *)
(* deadline of the import, or with the first chunk when the response itself   *)
(* came later, give or take the read that was on at that moment: never a       *)
(* deadline of its own for each request (transfer.py:1550-1583, 1684-1712).    *)
BodiesEndByTheDeadline ==
  /\ step = "reading" => spent <= Deadline \/ spent = came
  /\ came # NotCome => spent <= Most(came, Deadline) + ReadTimeout

(* What the comment of open_timeout says: a slow connect and header read cannot  *)
(* outlast the deadline, but for the floors of the timeouts (transfer.py:1522-1527). *)
OpensEndByTheDeadline == came <= Deadline + 3 * Floor

(* What is accepted was read whole and within the limit, and no request ever  *)
(* left https (transfer.py:1485-1515, 1607-1630, 1700-1712).                  *)
AcceptedIsWhole ==
  /\ ~plain
  /\ step = "done" => got <= SizeCap /\ (declared # NoLength => got >= declared)
================================================================================
