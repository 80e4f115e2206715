----------------------------- MODULE Leaderboard -----------------------------
(***************************************************************************)
(* The leaderboards: how scores become ranks and prizes                    *)
(* (leaderboard/ranking.go), which prizes a gender has, and the board of   *)
(* the riders that the service shows (leaderboard/service.go,              *)
(* leaderboard/mongo_store.go).                                            *)
(*                                                                         *)
(* A score is a record [worker, first, second]: what ranks first and what  *)
(* breaks ties (revenue and orders of a beautician, trips and distance of a*)
(* rider).  An office has, for each role, a prize list and settings per    *)
(* gender, [enabled, prizes], with enabled = None when there is no setting.*)
(***************************************************************************)
EXTENDS TripPayables, Sequences, FiniteSets, FiniteSetsExt

CONSTANT HexOf          \* worker -> the hex form of its id, as a number

Genders == {"female", "male", "other"}

\* The sum of the values of a function whose domain is finite.
SumOver(f) == MapThenSumSet(LAMBDA x : f[x], DOMAIN f)

GenderGroup(gender) == IF gender \in {"male", "other"} THEN gender ELSE "female"
-----------------------------------------------------------------------------
(* Ranks and prizes.                                                       *)

Before(a, b) ==
    \/ a.first > b.first
    \/ a.first = b.first /\ a.second > b.second
    \/ a.first = b.first /\ a.second = b.second /\ HexOf[a.worker] < HexOf[b.worker]

RankOf(score, scores) == 1 + Cardinality({s \in scores : Before(s, score)})

Award(score, scores, prizes) ==
    LET rank == RankOf(score, scores)
    IN  [worker |-> score.worker, rank |-> rank,
         bonus |-> IF rank <= Len(prizes) THEN prizes[rank] ELSE 0]

RankBeauticians(rows, prizes) ==
    LET scores == {[worker |-> r.worker, first |-> r.revenue, second |-> r.orders] : r \in rows}
    IN  {Award(s, scores, prizes) : s \in scores}

RankRiders(rows, prizes) ==
    LET scores == {[worker |-> r.worker, first |-> r.trips, second |-> r.distance] : r \in rows}
    IN  {Award(s, scores, prizes) : s \in scores}

\* The prizes of a role for a gender; none when the gender has them disabled.
GenderPrizes(office, role, gender) ==
    LET setting == office.settings[role][gender]
    IN  IF setting.enabled = None THEN office.prizes[role]
        ELSE IF setting.enabled THEN setting.prizes
        ELSE << >>

OfGender(rows, profiles, gender) ==
    {r \in rows : GenderGroup(profiles[r.worker].gender) = gender}
-----------------------------------------------------------------------------
(* The board of the riders, from a function of payable trips.              *)

TripsOfRider(trips, w) == {t \in DOMAIN trips : trips[t].rider = w}

RiderScores(trips) ==
    {[worker |-> w,
      trips |-> Cardinality(TripsOfRider(trips, w)),
      distance |-> SumOver([t \in TripsOfRider(trips, w) |-> ReportedDistance(trips[t])])] :
        w \in {trips[t].rider : t \in DOMAIN trips} \ {None}}

\* A rider who is deleted, or not of the gender asked for, has no profile.
Profiles(workers, profiles, gender) ==
    {w \in workers : ~profiles[w].deleted /\ gender \in {"all", profiles[w].gender}}

\* mutant of RankRiderScoresByGender: one ranking for everybody.
RankRiderScoresTogether(rows, profiles, office) ==
    RankRiders(rows, GenderPrizes(office, "rider", "female"))

RankRiderScoresByGender(rows, profiles, office) ==
    UNION {RankRiders(OfGender(rows, profiles, g), GenderPrizes(office, "rider", g)) : g \in Genders}

RiderBoard(trips, profiles, office, gender) ==
    LET scores == RiderScores(trips)
        shown  == Profiles({s.worker : s \in scores}, profiles, gender)
    IN  RankRiderScoresByGender({s \in scores : s.worker \in shown}, profiles, office)
=============================================================================
