------------------------ MODULE SaleLifecycle_proofs ------------------------
(***************************************************************************)
(* Proofs about SaleLifecycle for any number of sessions, sales, couriers    *)
(* and requests.  The argument: the flush of a sale's row is where guards     *)
(* that were read without a lock meet the database; from there to its commit *)
(* a session is the only writer of its sale, a courier it writes cannot be    *)
(* deleted, and no commit takes a sale that was reversed back.               *)
(***************************************************************************)
EXTENDS SaleLifecycle, TLAPS

\* Which requests are found at which place.
Route ==
    \A x \in Sessions :
        /\ pc[x] \in {"recall", "publish"} => call[x].op \in Corrections
        /\ pc[x] = "load" => call[x].op \in Updates
        /\ pc[x] = "courier" => call[x].op \in {"deliver", "ring"}
        /\ pc[x] \in {"flush", "commit"} => call[x].op \in Updates \cup {"ring"}
        /\ pc[x] \in {"phone", "save"} => call[x].op \in {"hire", "edit", "fire"}
        /\ pc[x] = "idle" \/ call[x].op = "ring" => seen[x] = NoSale

\* What was loaded is there, and what is being inserted is not.
Loaded ==
    \A x \in Sessions :
        /\ pc[x] \in {"courier", "flush", "publish", "commit"} /\ call[x].op \in Updates
           => call[x].sale \in Rung
        /\ pc[x] = "commit" /\ call[x].op = "ring" => sale[call[x].sale] = NoSale

\* A sale has one writer between its flush and its commit.
OneWriter ==
    \A x, y \in Writing : call[x].sale = call[y].sale => x = y

\* A courier that is being written to a sale is there until the commit.
CourierHeld ==
    \A x \in Writing : WritesCourier(x) => call[x].courier \in Hired

\* The action of a correction is found on its own sale only, which it reversed.
Marked ==
    \A s \in Rung, j \in Jobs :
        j.action \in Actions /\ j.action \in {sale[s].void, sale[s].refund} =>
            j.sale = s /\ s \notin Revenue

\* StockBackMeansReversed, with what the session that is about to commit does.
BackInv ==
    \A s \in Sales : putBack[s] # {} =>
        \/ s \in orphaned \cup (Rung \ Revenue)
        \/ \E x \in Sessions : pc[x] = "commit" /\ call[x].sale = s
                               /\ call[x].op \in Corrections

LifecycleInv ==
    /\ TypeOK
    /\ Route
    /\ Loaded
    /\ OneWriter
    /\ CourierHeld
    /\ Marked
    /\ BackInv
    /\ OkMeansReversed
    /\ CourierExists
    /\ PhonesUnique

----------------------------------------------------------------------------
(* Lemmas about single steps.                                               *)

LEMMA JobFacts ==
    ASSUME NEW j \in Jobs
    PROVE  /\ j.op \in Operations
           /\ j.sale \in Sales \cup {NoSale} /\ j.action \in Actions \cup {NoAction}
           /\ j.to \in Statuses \cup DeliveryStatuses \cup {"none"}
           /\ j.courier \in Couriers \cup {NoCourier} /\ j.phone \in Phones \cup {NoPhone}
           /\ j.active \in BOOLEAN
           /\ j.op \in Corrections <=> j.action \in Actions
           /\ j.op \in Updates \cup {"ring"} <=> j.sale \in Sales
           /\ j.op = "deliver" => j.to \in DeliveryStatuses
           /\ j.op = "ring" => j.to \in Statuses
           /\ j.op \in {"hire", "edit", "fire"} => j.courier \in Couriers
           /\ j.op = "hire" => j.phone \in Phones
BY LifecycleAssumption DEF JobType

\* A session past its flush writes a row of the table's type that keeps, or
\* makes, the sale reversed, unless it inserts the sale.
LEMMA WrittenRow ==
    ASSUME LifecycleInv, NEW x \in Sessions, pc[x] = "commit"
    PROVE  /\ call[x].sale \in Sales
           /\ Written(x) \in SaleRow
           /\ call[x].op \in Updates => call[x].sale \in Rung
           /\ call[x].op \in Corrections =>
                /\ Written(x).status # "completed"
                /\ Written(x).void \in {call[x].action, sale[call[x].sale].void}
                /\ Written(x).refund \in {call[x].action, sale[call[x].sale].refund}
           /\ call[x].op = "deliver" =>
                /\ Written(x).status = sale[call[x].sale].status
                /\ Written(x).void = sale[call[x].sale].void
                /\ Written(x).refund = sale[call[x].sale].refund
           /\ call[x].op = "ring" =>
                /\ call[x].sale \notin Rung
                /\ Written(x).void = NoAction /\ Written(x).refund = NoAction
           /\ Written(x).courier \in Hired \cup {NoCourier}
<1> DEFINE j == call[x]
           row == sale[j.sale]
<1>1. j \in Jobs /\ j.op \in Updates \cup {"ring"}
    BY DEF LifecycleInv, TypeOK, Route
<1>2. j.sale \in Sales
    BY <1>1, JobFacts
<1>3. CASE j.op = "ring"
    <2>1. Written(x) = RungUp(j)
        BY <1>3 DEF Written, Corrections
    <2>2. j.to \in Statuses /\ j.courier \in Couriers \cup {NoCourier}
        BY <1>1, <1>3, JobFacts
    <2>3. Written(x) \in SaleRow
        BY <2>1, <2>2 DEF RungUp, SaleRow, DeliveryStatuses
    <2>4. j.courier \in Hired \cup {NoCourier}
        BY <1>3 DEF WritesCourier, LifecycleInv, Route, CourierHeld, Writing
    <2>5. Written(x).courier = j.courier /\ Written(x).void = NoAction
          /\ Written(x).refund = NoAction
        BY <2>1 DEF RungUp
    <2>6. j.sale \notin Rung
        BY <1>3 DEF LifecycleInv, Loaded, Rung
    <2>7. QED
        BY <1>2, <1>3, <2>3, <2>4, <2>5, <2>6 DEF Updates, Corrections
<1>4. CASE j.op \in Corrections
    <2>1. Written(x) = Corrected(j, row) /\ row \in SaleRow /\ j.action \in Actions
        BY <1>1, <1>2, <1>4, JobFacts
        DEF Written, Corrections, LifecycleInv, Loaded, Rung, Updates, TypeOK
    <2>2. QED
        BY <1>1, <1>2, <1>4, <2>1
        DEF Corrected, SaleRow, Statuses, Corrections, Updates, LifecycleInv, Loaded, Rung,
            CourierExists
<1>5. CASE j.op = "deliver"
    <2>1. Written(x) = Delivered(x, row) /\ row \in SaleRow
        BY <1>1, <1>2, <1>5
        DEF Written, Corrections, LifecycleInv, Loaded, Rung, Updates, TypeOK
    <2>2. j.to \in DeliveryStatuses /\ j.courier \in Couriers \cup {NoCourier}
        BY <1>1, <1>5, JobFacts
    <2>3. j.sale \in Rung /\ row.courier \in Hired \cup {NoCourier}
        BY <1>5 DEF LifecycleInv, Loaded, Updates, CourierExists
    <2>4. WritesCourier(x) => j.courier \in Hired
        BY DEF LifecycleInv, CourierHeld, Writing
    <2>5. Written(x) = [row EXCEPT !.delivery = j.to,
                                   !.courier = IF WritesCourier(x) THEN j.courier ELSE @]
        BY <2>1 DEF Delivered
    <2>6. Written(x) \in SaleRow
        BY <2>1, <2>2, <2>5 DEF SaleRow
    <2>7. /\ Written(x).status = row.status
          /\ Written(x).void = row.void /\ Written(x).refund = row.refund
          /\ Written(x).courier \in Hired \cup {NoCourier}
        BY <2>1, <2>3, <2>4, <2>5 DEF SaleRow
    <2>8. QED
        BY <1>2, <1>5, <2>3, <2>6, <2>7 DEF Corrections
<1>6. QED
    BY <1>1, <1>3, <1>4, <1>5 DEF Updates

\* A session that writes nothing moves on to a place before its flush, or to
\* an answer.
LEMMA QuietStep ==
    ASSUME LifecycleInv, NEW x \in Sessions, NEW place,
           place \notin {"publish", "commit"}, pc[x] # "commit",
           pc' = [pc EXCEPT ![x] = place],
           UNCHANGED rows,
           \A y \in Sessions \ {x} : call'[y] = call[y] /\ seen'[y] = seen[y],
           TypeOK', Route',
           place \in {"courier", "flush"} /\ call'[x].op \in Updates => call'[x].sale \in Rung,
           place = "ok" /\ call'[x].op \in Corrections => call'[x].sale \in Rung \ Revenue
    PROVE  LifecycleInv'
<1>1. /\ \A y \in Sessions : pc'[y] = IF y = x THEN place ELSE pc[y]
      /\ sale' = sale /\ courier' = courier /\ putBack' = putBack /\ orphaned' = orphaned
    BY DEF rows, LifecycleInv, TypeOK
<1>2. Rung' = Rung /\ Revenue' = Revenue /\ Hired' = Hired
    BY <1>1 DEF Rung, Revenue, Hired
<1>3. Writing' \subseteq Writing \ {x}
    BY <1>1 DEF Writing
<1>4. Loaded'
    BY <1>1, <1>2 DEF LifecycleInv, Loaded
<1>5. OneWriter'
    BY <1>3 DEF LifecycleInv, OneWriter, Writing
<1>6. CourierHeld'
    BY <1>1, <1>2, <1>3 DEF LifecycleInv, CourierHeld, Writing, WritesCourier
<1>7. Marked'
    BY <1>1, <1>2 DEF LifecycleInv, Marked
<1>8. BackInv'
    BY <1>1, <1>2 DEF LifecycleInv, BackInv
<1>9. OkMeansReversed'
    BY <1>1, <1>2 DEF LifecycleInv, OkMeansReversed
<1>10. CourierExists' /\ PhonesUnique'
    BY <1>1, <1>2 DEF LifecycleInv, CourierExists, PhonesUnique
<1>11. QED
    BY <1>4, <1>5, <1>6, <1>7, <1>8, <1>9, <1>10 DEF LifecycleInv

LEMMA ArriveStep ==
    ASSUME LifecycleInv, NEW x \in Sessions, NEW j \in Jobs, Arrive(x, j)
    PROVE  LifecycleInv'
<1>1. j.op \in Operations
    BY JobFacts
<1>2. First(j) \in {"recall", "load", "flush", "courier", "phone", "save"}
      /\ (First(j) = "recall" => j.op \in Corrections)
      /\ (First(j) = "load" => j.op = "deliver")
      /\ (First(j) \in {"courier", "flush"} => j.op = "ring")
      /\ (First(j) \in {"phone", "save"} => j.op \in {"hire", "edit", "fire"})
    BY <1>1 DEF First, Operations, Updates, Corrections
<1>3. /\ pc' = [pc EXCEPT ![x] = First(j)] /\ call' = [call EXCEPT ![x] = j]
      /\ seen' = seen /\ jobs' = jobs + 1 /\ jobs < MaxJobs /\ aborts' = aborts
      /\ UNCHANGED rows /\ pc[x] = "idle"
    BY DEF Arrive, Goto
<1>4. TypeOK'
    BY <1>2, <1>3, LifecycleAssumption DEF LifecycleInv, TypeOK, rows, Places
<1>5. Route'
    BY <1>2, <1>3 DEF LifecycleInv, TypeOK, Route, Updates, Corrections
<1>6. QED
    BY <1>2, <1>3, <1>4, <1>5, QuietStep DEF LifecycleInv, TypeOK, Updates, Corrections

LEMMA DoneStep ==
    ASSUME LifecycleInv, NEW x \in Sessions, Done(x)
    PROVE  LifecycleInv'
<1>1. /\ pc' = [pc EXCEPT ![x] = "idle"] /\ call' = [call EXCEPT ![x] = NoJob]
      /\ seen' = [seen EXCEPT ![x] = NoSale] /\ jobs' = jobs /\ aborts' = aborts
      /\ UNCHANGED rows /\ pc[x] \in Answers
    BY DEF Done, Goto
<1>2. TypeOK' /\ Route'
    BY <1>1 DEF LifecycleInv, TypeOK, Route, rows, Places
<1>3. QED
    BY <1>1, <1>2, QuietStep DEF LifecycleInv, TypeOK, Answers

LEMMA RecallStep ==
    ASSUME LifecycleInv, NEW x \in Sessions, Recall(x)
    PROVE  LifecycleInv'
<1> DEFINE applied == \E s \in Rung : call[x].action \in {sale[s].void, sale[s].refund}
           place == IF applied THEN "ok" ELSE "load"
<1>1. /\ pc' = [pc EXCEPT ![x] = place] /\ UNCHANGED rows /\ pc[x] = "recall"
      /\ call' = call /\ seen' = seen /\ jobs' = jobs /\ aborts' = aborts
    BY DEF Recall, Goto
<1>2. call[x] \in Jobs /\ call[x].op \in Corrections /\ call[x].action \in Actions
    BY <1>1, JobFacts DEF LifecycleInv, TypeOK, Route
<1>3. applied => call[x].sale \in Rung \ Revenue
    BY <1>2 DEF LifecycleInv, Marked
<1>4. TypeOK' /\ Route'
    BY <1>1, <1>2 DEF LifecycleInv, TypeOK, Route, rows, Places, Answers, Updates, Corrections
<1>5. QED
    BY <1>1, <1>3, <1>4, QuietStep

LEMMA LoadSaleStep ==
    ASSUME LifecycleInv, NEW x \in Sessions, LoadSale(x)
    PROVE  LifecycleInv'
<1> DEFINE row == sale[call[x].sale]
           place == IF row # NoSale /\ row.status = "completed" THEN "flush" ELSE "refused"
<1>1. /\ pc' = [pc EXCEPT ![x] = place] /\ UNCHANGED rows /\ pc[x] = "load"
      /\ seen' = [seen EXCEPT ![x] = row] /\ call[x].op \in Corrections
      /\ call' = call /\ jobs' = jobs /\ aborts' = aborts
    BY DEF LoadSale, Goto
<1>2. call[x] \in Jobs /\ call[x].sale \in Sales
    BY <1>1, JobFacts DEF LifecycleInv, TypeOK, Updates
<1>3. TypeOK' /\ Route'
    BY <1>1, <1>2 DEF LifecycleInv, TypeOK, Route, rows, Places, Answers, Updates, Corrections
<1>4. place = "flush" => call[x].sale \in Rung
    BY <1>2 DEF Rung
<1>5. \A y \in Sessions \ {x} : call'[y] = call[y] /\ seen'[y] = seen[y]
    BY <1>1 DEF LifecycleInv, TypeOK
<1>6. place \notin {"publish", "commit", "ok", "courier"} /\ pc[x] # "commit"
    BY <1>1
<1>7. place = "flush" => call'[x].sale \in Rung
    BY <1>1, <1>4
<1>8. QED
    BY <1>1, <1>3, <1>5, <1>6, <1>7, QuietStep

LEMMA LoadDeliveryStep ==
    ASSUME LifecycleInv, NEW x \in Sessions, LoadDelivery(x)
    PROVE  LifecycleInv'
<1> DEFINE row == sale[call[x].sale]
<1>1. PICK place \in {"flush", "courier", "refused"} :
        pc' = [pc EXCEPT ![x] = place] /\ (place # "refused" => row # NoSale)
    BY DEF LoadDelivery, Goto
<1>2. /\ UNCHANGED rows /\ pc[x] = "load" /\ call[x].op = "deliver"
      /\ seen' = [seen EXCEPT ![x] = row]
      /\ call' = call /\ jobs' = jobs /\ aborts' = aborts
    BY DEF LoadDelivery
<1>3. call[x] \in Jobs /\ call[x].sale \in Sales
    BY <1>2, JobFacts DEF LifecycleInv, TypeOK, Updates
<1>4. TypeOK' /\ Route'
    BY <1>1, <1>2, <1>3
    DEF LifecycleInv, TypeOK, Route, rows, Places, Answers, Updates, Corrections
<1>5. place # "refused" => call[x].sale \in Rung
    BY <1>1, <1>3 DEF Rung
<1>6. /\ place \notin {"publish", "commit"} /\ place # "ok"
      /\ call'[x].op \in Updates /\ place \in {"courier", "flush"} => call'[x].sale \in Rung
      /\ \A y \in Sessions \ {x} : call'[y] = call[y] /\ seen'[y] = seen[y]
    BY <1>1, <1>2, <1>5 DEF LifecycleInv, TypeOK
<1>7. QED
    BY <1>1, <1>2, <1>4, <1>6, QuietStep

LEMMA CheckCourierStep ==
    ASSUME LifecycleInv, NEW x \in Sessions, CheckCourier(x)
    PROVE  LifecycleInv'
<1>1. PICK place \in {"flush", "refused"} : pc' = [pc EXCEPT ![x] = place]
    BY DEF CheckCourier, Goto
<1>2. /\ UNCHANGED rows /\ pc[x] = "courier" /\ call' = call /\ seen' = seen
      /\ jobs' = jobs /\ aborts' = aborts
    BY DEF CheckCourier
<1>3. TypeOK' /\ Route'
    BY <1>1, <1>2 DEF LifecycleInv, TypeOK, Route, rows, Places, Answers, Updates
<1>4. call[x].op \in Updates => call[x].sale \in Rung
    BY <1>2 DEF LifecycleInv, Loaded
<1>5. QED
    BY <1>1, <1>2, <1>3, <1>4, QuietStep

LEMMA FindPhoneStep ==
    ASSUME LifecycleInv, NEW x \in Sessions, FindPhone(x)
    PROVE  LifecycleInv'
<1>1. PICK place \in {"save", "refused"} : pc' = [pc EXCEPT ![x] = place]
    BY DEF FindPhone, Goto
<1>2. /\ UNCHANGED rows /\ pc[x] = "phone" /\ call' = call /\ seen' = seen
      /\ jobs' = jobs /\ aborts' = aborts
    BY DEF FindPhone
<1>3. TypeOK' /\ Route'
    BY <1>1, <1>2 DEF LifecycleInv, TypeOK, Route, rows, Places, Answers
<1>4. QED
    BY <1>1, <1>2, <1>3, QuietStep

LEMMA FlushStep ==
    ASSUME LifecycleInv, NEW x \in Sessions, Flush(x)
    PROVE  LifecycleInv'
<1> DEFINE place == IF Broken(x) THEN "error" ELSE AfterFlush(x)
<1>1. /\ pc' = [pc EXCEPT ![x] = place] /\ pc[x] = "flush" /\ Free(x)
      /\ UNCHANGED <<sale, courier, putBack, orphaned, call, seen, jobs, aborts>>
    BY DEF Flush, Goto, rows
<1>2. /\ call[x] \in Jobs /\ call[x].op \in Updates \cup {"ring"}
      /\ call[x].op \in Updates => call[x].sale \in Rung
    BY <1>1 DEF LifecycleInv, TypeOK, Route, Loaded
<1>3. TypeOK' /\ Route'
    BY <1>1, <1>2
    DEF AfterFlush, LifecycleInv, TypeOK, Route, Places, Answers, Updates, Corrections
<1>4. CASE Broken(x)
    BY <1>1, <1>3, <1>4, QuietStep DEF rows
<1>5. CASE ~Broken(x)
    <2>1. place = AfterFlush(x) /\ pc'[x] \in {"publish", "commit"}
        BY <1>1, <1>5 DEF AfterFlush, LifecycleInv, TypeOK
    <2>2. /\ Rung' = Rung /\ Revenue' = Revenue /\ Hired' = Hired
          /\ Writing' = Writing \cup {x}
        BY <1>1, <2>1 DEF Rung, Revenue, Hired, Writing, LifecycleInv, TypeOK
    <2>3. Loaded'
        BY <1>1, <1>2, <1>5, <2>1, <2>2
        DEF LifecycleInv, TypeOK, Loaded, Broken
    <2>4. OneWriter'
        BY <1>1, <2>2 DEF LifecycleInv, OneWriter, Free, Writing
    <2>5. CourierHeld'
        <3>1. WritesCourier(x) => call[x].courier \in Hired
            BY <1>2, <1>5, JobFacts DEF Broken, Hired, WritesCourier
        <3>2. QED
            BY <1>1, <2>2, <3>1 DEF LifecycleInv, CourierHeld, WritesCourier
    <2>6. Marked' /\ CourierExists' /\ PhonesUnique'
        BY <1>1, <2>2 DEF LifecycleInv, Marked, CourierExists, PhonesUnique
    <2>7. BackInv'
        BY <1>1, <2>1, <2>2 DEF LifecycleInv, TypeOK, BackInv
    <2>8. OkMeansReversed'
        BY <1>1, <2>1, <2>2 DEF LifecycleInv, TypeOK, OkMeansReversed
    <2>9. QED
        BY <1>3, <2>3, <2>4, <2>5, <2>6, <2>7, <2>8 DEF LifecycleInv
<1>6. QED
    BY <1>4, <1>5

LEMMA PublishStep ==
    ASSUME LifecycleInv, NEW x \in Sessions, PublishReversal(x)
    PROVE  LifecycleInv'
<1>1. /\ pc' = [pc EXCEPT ![x] = "commit"] /\ pc[x] = "publish"
      /\ UNCHANGED <<sale, courier, orphaned, call, seen, jobs, aborts>>
      /\ \/ putBack' = [putBack EXCEPT ![call[x].sale] = @ \cup {call[x].action}]
         \/ UNCHANGED putBack
    BY DEF PublishReversal, Goto
<1>2. /\ call[x] \in Jobs /\ call[x].op \in Corrections
      /\ call[x].sale \in Sales /\ call[x].action \in Actions
    BY <1>1, JobFacts DEF LifecycleInv, TypeOK, Route, Updates
<1>3. /\ Rung' = Rung /\ Revenue' = Revenue /\ Hired' = Hired /\ Writing' = Writing
    BY <1>1 DEF Rung, Revenue, Hired, Writing, LifecycleInv, TypeOK
<1>4. TypeOK' /\ Route'
    BY <1>1, <1>2
    DEF LifecycleInv, TypeOK, Route, Places, Answers, Updates, Corrections
<1>5. Loaded' /\ OneWriter'
    BY <1>1, <1>2, <1>3 DEF LifecycleInv, TypeOK, Loaded, OneWriter, Corrections
<1>6. CourierHeld' /\ Marked' /\ CourierExists' /\ PhonesUnique'
    BY <1>1, <1>3
    DEF LifecycleInv, CourierHeld, WritesCourier, Marked, CourierExists, PhonesUnique
<1>7. BackInv'
    BY <1>1, <1>2, <1>3 DEF LifecycleInv, TypeOK, BackInv
<1>8. OkMeansReversed'
    BY <1>1, <1>3 DEF LifecycleInv, TypeOK, OkMeansReversed
<1>9. QED
    BY <1>4, <1>5, <1>6, <1>7, <1>8 DEF LifecycleInv

LEMMA CommitStep ==
    ASSUME LifecycleInv, NEW x \in Sessions, Commit(x)
    PROVE  LifecycleInv'
<1> DEFINE s0 == call[x].sale
           row == sale[s0]
           new == Written(x)
<1>1. /\ pc' = [pc EXCEPT ![x] = "ok"] /\ pc[x] = "commit"
      /\ sale' = [sale EXCEPT ![s0] = new]
      /\ UNCHANGED <<courier, putBack, orphaned, call, seen, jobs, aborts>>
    BY DEF Commit, Goto
<1>2. /\ s0 \in Sales /\ new \in SaleRow /\ new # NoSale
      /\ call[x] \in Jobs /\ call[x].op \in Updates \cup {"ring"}
    BY <1>1, WrittenRow, LifecycleAssumption DEF LifecycleInv, TypeOK, Route
<1>3. /\ \A s \in Sales : sale'[s] = IF s = s0 THEN new ELSE sale[s]
      /\ \A y \in Sessions : pc'[y] = IF y = x THEN "ok" ELSE pc[y]
    BY <1>1, <1>2 DEF LifecycleInv, TypeOK
<1>4. /\ Rung' = Rung \cup {s0} /\ Hired' = Hired /\ Writing' = Writing \ {x}
    BY <1>1, <1>2, <1>3 DEF Rung, Hired, Writing
<1>5. \A s \in Sales \ {s0} : s \in Revenue' <=> s \in Revenue
    BY <1>2, <1>3, <1>4 DEF Revenue
<1>6. s0 \in Rung \ Revenue => s0 \notin Revenue'
    <2>1. s0 \in Rung \ Revenue => new.status # "completed"
        BY <1>1, <1>2, WrittenRow DEF Revenue, Updates
    <2>2. QED
        BY <1>2, <1>3, <2>1 DEF Revenue
<1>7. call[x].op \in Corrections => s0 \in Rung' \ Revenue'
    BY <1>1, <1>2, <1>3, <1>4, WrittenRow DEF Revenue
<1>8. TypeOK' /\ Route'
    <2>1. sale' \in [Sales -> SaleRow \cup {NoSale}]
        BY <1>1, <1>2 DEF LifecycleInv, TypeOK
    <2>2. QED
        BY <1>1, <1>2, <2>1 DEF LifecycleInv, TypeOK, Route, Places, Answers
<1>9. OneWriter'
    BY <1>1, <1>4 DEF LifecycleInv, OneWriter
<1>10. Loaded'
    <2>1. \A y \in Sessions \ {x} : pc[y] = "commit" => call[y].sale # s0
        BY <1>1 DEF LifecycleInv, OneWriter, Writing
    <2>2. \A y \in Sessions : pc[y] = "commit" /\ call[y].op = "ring" => call[y].sale \in Sales
        BY JobFacts DEF LifecycleInv, TypeOK
    <2>3. QED
        BY <1>1, <1>3, <1>4, <2>1, <2>2 DEF LifecycleInv, Loaded
<1>11. CourierHeld'
    BY <1>1, <1>4 DEF LifecycleInv, CourierHeld, WritesCourier
<1>12. Marked'
    <2> SUFFICES ASSUME NEW s \in Rung', NEW j \in Jobs, j.action \in Actions,
                        j.action \in {sale'[s].void, sale'[s].refund}
                 PROVE  j.sale = s /\ s \notin Revenue'
        BY DEF Marked
    <2>1. CASE s # s0
        BY <1>3, <1>4, <1>5, <2>1 DEF LifecycleInv, Marked, Rung
    <2>2. CASE s = s0 /\ call[x].op = "ring"
        BY <1>1, <1>2, <1>3, <2>2, WrittenRow, LifecycleAssumption
    <2>3. CASE s = s0 /\ call[x].op = "deliver"
        <3>1. row.void = new.void /\ row.refund = new.refund /\ s0 \in Rung
            BY <1>1, <2>3, WrittenRow DEF Updates
        <3>2. QED
            BY <1>2, <1>3, <1>6, <2>3, <3>1 DEF LifecycleInv, Marked
    <2>4. CASE s = s0 /\ call[x].op \in Corrections
        <3>1. s0 \in Rung /\ {new.void, new.refund} \subseteq {call[x].action, row.void, row.refund}
            BY <1>1, <2>4, WrittenRow DEF Updates
        <3>2. CASE j.action = call[x].action
            BY <1>2, <1>7, <2>4, <3>2, ActionAssumption
        <3>3. CASE j.action \in {row.void, row.refund}
            BY <1>7, <2>4, <3>1, <3>3 DEF LifecycleInv, Marked
        <3>4. QED
            BY <1>2, <1>3, <2>4, <3>1, <3>2, <3>3
    <2>5. QED
        BY <1>2, <2>1, <2>2, <2>3, <2>4 DEF Updates
<1>13. BackInv'
    <2> SUFFICES ASSUME NEW s \in Sales, putBack[s] # {}
                 PROVE  \/ s \in orphaned \cup (Rung' \ Revenue')
                        \/ \E y \in Sessions : pc'[y] = "commit" /\ call[y].sale = s
                                               /\ call[y].op \in Corrections
        BY <1>1 DEF BackInv
    <2>1. CASE s \in orphaned \cup (Rung \ Revenue)
        BY <1>4, <1>5, <1>6, <2>1
    <2>2. ASSUME NEW y \in Sessions, pc[y] = "commit", call[y].sale = s,
                 call[y].op \in Corrections
          PROVE  \/ s \in Rung' \ Revenue'
                 \/ pc'[y] = "commit"
        BY <1>3, <1>7, <2>2
    <2>3. QED
        BY <2>1, <2>2 DEF LifecycleInv, BackInv
<1>14. OkMeansReversed'
    BY <1>1, <1>3, <1>4, <1>5, <1>6, <1>7 DEF LifecycleInv, OkMeansReversed, Rung
<1>15. CourierExists' /\ PhonesUnique'
    <2>1. new.courier \in Hired \cup {NoCourier}
        BY <1>1, WrittenRow
    <2>2. CourierExists'
        BY <1>3, <1>4, <2>1 DEF LifecycleInv, CourierExists, Rung
    <2>3. QED
        BY <1>1, <1>4, <2>2 DEF LifecycleInv, PhonesUnique
<1>16. QED
    BY <1>8, <1>9, <1>10, <1>11, <1>12, <1>13, <1>14, <1>15 DEF LifecycleInv

LEMMA AbortStep ==
    ASSUME LifecycleInv, NEW x \in Sessions, Abort(x)
    PROVE  LifecycleInv'
<1>1. /\ pc' = [pc EXCEPT ![x] = "error"] /\ pc[x] \in {"publish", "commit"}
      /\ aborts < MaxAborts /\ aborts' = aborts + 1
      /\ orphaned' = IF call[x].op \in Corrections /\ pc[x] = "commit"
                      THEN orphaned \cup {call[x].sale} ELSE orphaned
      /\ UNCHANGED <<sale, courier, putBack, call, seen, jobs>>
    BY DEF Abort, Goto
<1>2. /\ call[x] \in Jobs /\ call[x].sale \in Sales
    BY <1>1, JobFacts DEF LifecycleInv, TypeOK, Route, Updates, Corrections
<1>3. /\ \A y \in Sessions : pc'[y] = IF y = x THEN "error" ELSE pc[y]
      /\ Rung' = Rung /\ Revenue' = Revenue /\ Hired' = Hired /\ Writing' = Writing \ {x}
    BY <1>1 DEF Rung, Revenue, Hired, Writing, LifecycleInv, TypeOK
<1>4. TypeOK' /\ Route'
    BY <1>1, <1>2, LifecycleAssumption DEF LifecycleInv, TypeOK, Route, Places, Answers
<1>5. Loaded' /\ OneWriter' /\ CourierHeld'
    BY <1>1, <1>3 DEF LifecycleInv, Loaded, OneWriter, CourierHeld, WritesCourier
<1>6. Marked' /\ CourierExists' /\ PhonesUnique' /\ OkMeansReversed'
    BY <1>1, <1>3
    DEF LifecycleInv, Marked, CourierExists, PhonesUnique, OkMeansReversed
<1>7. BackInv'
    BY <1>1, <1>3 DEF LifecycleInv, BackInv
<1>8. QED
    BY <1>4, <1>5, <1>6, <1>7 DEF LifecycleInv

\* What the couriers' own requests change leaves the sales' invariants alone,
\* as long as a courier that is being written stays.
LEMMA CourierStep ==
    ASSUME LifecycleInv, NEW x \in Sessions, NEW place \in Answers,
           pc[x] = "save", pc' = [pc EXCEPT ![x] = place],
           UNCHANGED <<sale, putBack, orphaned, call, seen, jobs, aborts>>,
           courier' \in [Couriers -> CourierRow \cup {NoCourier}],
           Hired \subseteq Hired', PhonesUnique'
    PROVE  LifecycleInv'
<1>1. call[x].op \in {"hire", "edit", "fire"}
    BY DEF LifecycleInv, Route
<1>2. TypeOK' /\ Route'
    BY <1>1 DEF LifecycleInv, TypeOK, Route, Places, Answers
<1>3. /\ \A y \in Sessions : pc'[y] = IF y = x THEN place ELSE pc[y]
      /\ Rung' = Rung /\ Revenue' = Revenue /\ Writing' = Writing
    BY DEF Rung, Revenue, Writing, LifecycleInv, TypeOK, Answers
<1>4. Loaded' /\ OneWriter' /\ Marked'
    BY <1>3 DEF LifecycleInv, Loaded, OneWriter, Marked, Answers
<1>5. CourierHeld' /\ CourierExists'
    BY <1>3 DEF LifecycleInv, CourierHeld, CourierExists, WritesCourier
<1>6. BackInv' /\ OkMeansReversed'
    BY <1>1, <1>3 DEF LifecycleInv, BackInv, OkMeansReversed, Corrections
<1>7. QED
    BY <1>2, <1>4, <1>5, <1>6 DEF LifecycleInv

LEMMA CreateCourierStep ==
    ASSUME LifecycleInv, NEW x \in Sessions, CreateCourier(x)
    PROVE  LifecycleInv'
<1> DEFINE j == call[x]
           clash == PhoneClash(j) \/ courier[j.courier] # NoCourier
           row == [phone |-> j.phone, active |-> j.active]
<1>1. /\ pc[x] = "save" /\ j.op = "hire"
      /\ UNCHANGED <<sale, putBack, orphaned, call, seen, jobs, aborts>>
    BY DEF CreateCourier
<1>2. /\ j.courier \in Couriers /\ j.phone \in Phones /\ j.active \in BOOLEAN
    BY <1>1, JobFacts DEF LifecycleInv, TypeOK
<1>3. CASE clash
    <2>1. pc' = [pc EXCEPT ![x] = "refused"] /\ UNCHANGED courier
        BY <1>3 DEF CreateCourier, Goto
    <2>2. QED
        BY <1>1, <2>1, CourierStep
        DEF Answers, LifecycleInv, TypeOK, Hired, PhonesUnique
<1>4. CASE ~clash
    <2>1. pc' = [pc EXCEPT ![x] = "ok"] /\ courier' = [courier EXCEPT ![j.courier] = row]
        BY <1>4 DEF CreateCourier, Goto
    <2>2. row \in CourierRow /\ row # NoCourier
        BY <1>2, LifecycleAssumption DEF CourierRow
    <2>3. courier' \in [Couriers -> CourierRow \cup {NoCourier}]
        BY <2>1, <2>2 DEF LifecycleInv, TypeOK
    <2>4. Hired' = Hired \cup {j.courier}
        BY <1>2, <2>1, <2>2 DEF Hired, LifecycleInv, TypeOK
    <2>5. \A d \in Hired \ {j.courier} : courier[d].phone # j.phone
        BY <1>2, <1>4, LifecycleAssumption DEF PhoneClash, PhoneTaken
    <2>6. PhonesUnique'
        BY <1>2, <2>1, <2>4, <2>5 DEF PhonesUnique, LifecycleInv, TypeOK, Hired
    <2>7. QED
        BY <1>1, <2>1, <2>3, <2>4, <2>6, CourierStep DEF Answers
<1>5. QED
    BY <1>3, <1>4

LEMMA UpdateCourierStep ==
    ASSUME LifecycleInv, NEW x \in Sessions, UpdateCourier(x)
    PROVE  LifecycleInv'
<1> DEFINE j == call[x]
           row == courier[j.courier]
           kept == IF j.phone = NoPhone THEN row.phone ELSE j.phone
           new == [phone |-> kept, active |-> j.active]
<1>1. /\ pc[x] = "save" /\ j.op = "edit"
      /\ UNCHANGED <<sale, putBack, orphaned, call, seen, jobs, aborts>>
    BY DEF UpdateCourier
<1>2. /\ j.courier \in Couriers /\ j.phone \in Phones \cup {NoPhone}
      /\ j.active \in BOOLEAN
    BY <1>1, JobFacts DEF LifecycleInv, TypeOK
<1>3. CASE row = NoCourier \/ PhoneClash(j)
    <2>1. PICK place \in {"error", "refused"} :
            pc' = [pc EXCEPT ![x] = place] /\ UNCHANGED courier
        BY <1>3 DEF UpdateCourier, Goto
    <2>2. QED
        BY <1>1, <2>1, CourierStep
        DEF Answers, LifecycleInv, TypeOK, Hired, PhonesUnique
<1>4. CASE row # NoCourier /\ ~PhoneClash(j)
    <2>1. pc' = [pc EXCEPT ![x] = "ok"] /\ courier' = [courier EXCEPT ![j.courier] = new]
        BY <1>4 DEF UpdateCourier, Goto
    <2>2. row \in CourierRow /\ new \in CourierRow /\ new # NoCourier
        BY <1>2, <1>4, LifecycleAssumption DEF CourierRow, LifecycleInv, TypeOK
    <2>3. courier' \in [Couriers -> CourierRow \cup {NoCourier}]
        BY <2>1, <2>2 DEF LifecycleInv, TypeOK
    <2>4. Hired' = Hired /\ j.courier \in Hired
        BY <1>2, <1>4, <2>1, <2>2 DEF Hired, LifecycleInv, TypeOK
    <2>5. \A d \in Hired \ {j.courier} : courier[d].phone # kept
        BY <1>4, <2>4 DEF PhoneClash, PhoneTaken, LifecycleInv, PhonesUnique
    <2>6. PhonesUnique'
        BY <1>2, <2>1, <2>4, <2>5 DEF PhonesUnique, LifecycleInv, TypeOK, Hired
    <2>7. QED
        BY <1>1, <2>1, <2>3, <2>4, <2>6, CourierStep DEF Answers
<1>5. QED
    BY <1>3, <1>4

LEMMA DeleteCourierStep ==
    ASSUME LifecycleInv, NEW x \in Sessions, DeleteCourier(x)
    PROVE  LifecycleInv'
<1> DEFINE c == call[x].courier
<1>1. /\ pc[x] = "save" /\ call[x].op = "fire"
      /\ UNCHANGED <<putBack, orphaned, call, seen, jobs, aborts>>
    BY DEF DeleteCourier
<1>2. c \in Couriers
    BY <1>1, JobFacts DEF LifecycleInv, TypeOK
<1>3. CASE courier[c] = NoCourier
    <2>1. pc' = [pc EXCEPT ![x] = "refused"] /\ UNCHANGED <<sale, courier>>
        BY <1>3 DEF DeleteCourier, Goto
    <2>2. QED
        BY <1>1, <2>1, CourierStep
        DEF Answers, LifecycleInv, TypeOK, Hired, PhonesUnique
<1>4. CASE courier[c] # NoCourier
    <2>1. /\ Unheld(c) /\ pc' = [pc EXCEPT ![x] = "ok"]
          /\ courier' = [courier EXCEPT ![c] = NoCourier] /\ sale' = Orphan(c)
        BY <1>4 DEF DeleteCourier, Goto
    <2>2. \A s \in Sales :
            /\ s \notin Rung => sale'[s] = NoSale
            /\ s \in Rung =>
                 /\ sale'[s] \in SaleRow
                 /\ sale'[s].status = sale[s].status
                 /\ sale'[s].void = sale[s].void /\ sale'[s].refund = sale[s].refund
                 /\ sale'[s].courier = IF sale[s].courier = c THEN NoCourier
                                                              ELSE sale[s].courier
        <3> SUFFICES ASSUME NEW s \in Sales
                     PROVE  /\ s \notin Rung => sale'[s] = NoSale
                            /\ s \in Rung =>
                                 /\ sale'[s] \in SaleRow
                                 /\ sale'[s].status = sale[s].status
                                 /\ sale'[s].void = sale[s].void
                                 /\ sale'[s].refund = sale[s].refund
                                 /\ sale'[s].courier = IF sale[s].courier = c THEN NoCourier
                                                                              ELSE sale[s].courier
            OBVIOUS
        <3>1. sale'[s] = IF s \in Rung /\ sale[s].courier = c
                         THEN [sale[s] EXCEPT !.courier = NoCourier] ELSE sale[s]
            BY <2>1 DEF Orphan
        <3>2. s \in Rung => sale[s] \in SaleRow
            BY DEF Rung, LifecycleInv, TypeOK
        <3>3. s \notin Rung => sale[s] = NoSale
            BY DEF Rung
        <3>4. QED
            BY <3>1, <3>2, <3>3 DEF SaleRow
    <2>3. sale' \in [Sales -> SaleRow \cup {NoSale}]
        BY <2>1, <2>2 DEF Orphan
    <2>4. /\ Rung' = Rung /\ Revenue' = Revenue /\ Hired' = Hired \ {c}
          /\ Writing' = Writing
          /\ \A y \in Sessions : pc'[y] = IF y = x THEN "ok" ELSE pc[y]
        BY <1>1, <1>2, <2>1, <2>2, LifecycleAssumption
        DEF Rung, Revenue, Hired, Writing, LifecycleInv, TypeOK
    <2>5. TypeOK' /\ Route'
        BY <1>1, <2>1, <2>3 DEF LifecycleInv, TypeOK, Route, Places, Answers
    <2>6. Loaded'
        BY <1>1, <2>2, <2>4, JobFacts DEF LifecycleInv, TypeOK, Loaded, Rung
    <2>7. OneWriter' /\ Marked'
        BY <1>1, <2>2, <2>4 DEF LifecycleInv, OneWriter, Marked, Rung
    <2>8. CourierHeld'
        BY <1>1, <2>1, <2>4 DEF LifecycleInv, CourierHeld, Unheld, WritesCourier
    <2>9. CourierExists'
        BY <2>2, <2>4 DEF LifecycleInv, CourierExists, Rung
    <2>10. PhonesUnique'
        BY <2>1, <2>4 DEF LifecycleInv, PhonesUnique, TypeOK, Hired
    <2>11. BackInv' /\ OkMeansReversed'
        BY <1>1, <2>4 DEF LifecycleInv, BackInv, OkMeansReversed, Corrections
    <2>12. QED
        BY <2>5, <2>6, <2>7, <2>8, <2>9, <2>10, <2>11 DEF LifecycleInv
<1>5. QED
    BY <1>3, <1>4

----------------------------------------------------------------------------
(* Theorems.                                                                *)

\* The invariant holds of every reachable state, whatever the requests.
THEOREM LifecycleInvariant == Spec => []LifecycleInv
<1>1. Init => LifecycleInv
    BY LifecycleAssumption
    DEF Init, LifecycleInv, TypeOK, Route, Loaded, OneWriter, CourierHeld, Marked, BackInv,
        OkMeansReversed, CourierExists, PhonesUnique, Places, Writing, Rung, Revenue, Hired
<1>2. LifecycleInv /\ [Next]_vars => LifecycleInv'
    <2> SUFFICES ASSUME LifecycleInv, [Next]_vars PROVE LifecycleInv'
        OBVIOUS
    <2>1. CASE UNCHANGED vars
        BY <2>1
        DEF vars, LifecycleInv, TypeOK, Route, Loaded, OneWriter, CourierHeld, Marked, BackInv,
            OkMeansReversed, CourierExists, PhonesUnique, Writing, WritesCourier, Rung,
            Revenue, Hired
    <2>2. ASSUME NEW x \in Sessions, Step(x) PROVE LifecycleInv'
        BY <2>2, RecallStep, LoadSaleStep, LoadDeliveryStep, CheckCourierStep, FlushStep,
           PublishStep, CommitStep, FindPhoneStep, CreateCourierStep, UpdateCourierStep,
           DeleteCourierStep
        DEF Step
    <2>3. QED
        BY <2>1, <2>2, ArriveStep, AbortStep, DoneStep DEF Next, Rest
<1>3. QED
    BY <1>1, <1>2, PTL DEF Spec

\* The tables keep their types, references and unique keys, however requests
\* race between the checks and the writes.
THEOREM LifecycleTables == Spec => []TablesConsistent
<1>1. LifecycleInv => TablesConsistent
    BY DEF LifecycleInv, TablesConsistent
<1>2. QED
    BY <1>1, LifecycleInvariant, PTL

\* A correction that was answered with success has taken its sale out of the
\* revenue, for any number of concurrent corrections and delivery steps.
THEOREM CorrectionsStand == Spec => []OkMeansReversed
<1>1. LifecycleInv => OkMeansReversed
    BY DEF LifecycleInv
<1>2. QED
    BY <1>1, LifecycleInvariant, PTL

\* Stock comes back only for a sale that is reversed, is about to be, or whose
\* transaction failed after the event had left.
THEOREM StockComesBackForReversals == Spec => []StockBackMeansReversed
<1>1. LifecycleInv => StockBackMeansReversed
    BY DEF LifecycleInv, BackInv, StockBackMeansReversed
<1>2. QED
    BY <1>1, LifecycleInvariant, PTL
=============================================================================
