---------------------------- MODULE ReviewPromise ----------------------------
(***************************************************************************)
(* What the platform promises about one piece of graded free-form work, as *)
(* the doc comments of the Attempt entity state it: it is decided once, by *)
(* the machine, a model, the school's term or a teacher; only a teacher    *)
(* may decide again, once, and only after the term; and the learner's      *)
(* memory is rated at most once, by the verdict that was final first.      *)
(* How the handlers of exercise-engine-service bring this about is in      *)
(* AttemptReview.                                                          *)
(***************************************************************************)

VARIABLES
    stage,  \* where the work is
    rated   \* whose verdict the memory has been rated by

Stage == {"working", "abandoned", "nobody", "waiting", "read_by_model",
          "machine", "model", "term", "teacher", "revised"}

TypeOK == stage \in Stage /\ rated \in {"none", "machine", "model", "teacher"}

Init == stage = "working" /\ rated = "none"

Move(from, to) == stage \in from /\ stage' \in to /\ UNCHANGED rated

HandIn == Move({"working"}, {"machine", "waiting", "nobody"})

\* The learner may drop work not handed in, and work that came back to them.
Abandon == Move({"working", "model", "term", "teacher", "revised"}, {"abandoned"})

ModelAnswers == Move({"waiting"}, {"read_by_model", "model"})

ModelGivesUp == Move({"waiting"}, {"nobody"})

TermRunsOut == Move({"read_by_model"}, {"term"})

TeacherAnswers == Move({"waiting", "read_by_model"}, {"teacher"})

TeacherRevises == Move({"term"}, {"revised"})

Rater == [s \in {"machine", "model", "term", "teacher"} |->
             IF s = "term" THEN "model" ELSE s]

Rate == /\ rated = "none"
        /\ stage \in DOMAIN Rater
        /\ rated' = Rater[stage]
        /\ UNCHANGED stage

Next == HandIn \/ Abandon \/ ModelAnswers \/ ModelGivesUp \/ TermRunsOut
        \/ TeacherAnswers \/ TeacherRevises \/ Rate

Spec == Init /\ [][Next]_<<stage, rated>>
=============================================================================
