------------------------- MODULE CongestionControl --------------------------
(***************************************************************************)
(* The congestion window of a worker (cc_t, adjust_rate,                   *)
(* congestion_control, full_retrans), driven by the worker's loop: receive *)
(* answers, send, adjust.  The switch marks packets (dcqcn.p4), the        *)
(* network loses them.                                                     *)
(*                                                                         *)
(* cwnd and target_cwnd are multiples of 1/Scale packet.  loss_ratio,      *)
(* between 0 and 1, only sets how far cwnd falls, at most by half, and is  *)
(* left open.  Times are ages: how long ago a time stamp was taken, up to  *)
(* the value the code compares it with.                                    *)
(***************************************************************************)
EXTENDS Integers

CONSTANTS
    Scale,          \* units of a packet
    MaxWinLen,      \* MAX_WIN_LEN
    WinLimit,       \* current_switch_window_limit
    CwndMin,        \* CC_CWND_MIN
    Ai,             \* CC_AI, in units
    FastRecovery,   \* CC_FAST_RECOEVERY_CNT
    Burst,          \* MAX_PKT_BURST
    ReactionTime,   \* CC_REACTION_TIME
    TimeoutTime,    \* TIMEOUT_TIME
    Gap             \* Gap[k]: how far cwnd may be from its target with k steps of fast
                    \* recovery to go (only the inductive invariant uses it)

MaxCwnd == (MaxWinLen - 1) * Scale

ASSUME CcAssumption ==
    /\ {Scale, MaxWinLen, WinLimit, CwndMin, Ai, FastRecovery, Burst, ReactionTime,
        TimeoutTime} \subseteq Nat \ {0}
    /\ CwndMin <= WinLimit

(***************************************************************************)
(* Every step of fast recovery halves the distance to the target, which    *)
(* starts below MaxCwnd.  After it the distance and the limit of the       *)
(* window leave room below the ring: 1023 / 32 + 513 + CC_AI < 1023.       *)
(***************************************************************************)
ASSUME GapAssumption ==
    /\ Gap \in [0 .. FastRecovery -> Nat]
    /\ MaxCwnd <= Gap[FastRecovery]
    /\ \A k \in 1 .. FastRecovery : Gap[k] <= 2 * Gap[k - 1]
    /\ Ai <= Gap[0]
    /\ (WinLimit + 1) * Scale + Gap[0] + Ai <= MaxCwnd

VARIABLES
    cwnd, target_cwnd, adjust_cnt,  \* cc_t
    decrease_age, adjust_age,       \* since prev_decrease_ts, prev_adjust_ts
    ack_age,                        \* since last_ack_time_stamp
    win_len,                        \* packets in the window
    cwnd_achieved,
    new_ack_cc,                     \* is ack_cnt # prev_ack_cnt_cc?
    congested,                      \* tos_minitor has a mark, or pkt_loss_flag is set
    pc,                             \* the next part of the loop
    calm            \* from now on the network marks and loses nothing, and answers packets
                    \* at a lower rate than the worker can send

rates == <<cwnd, target_cwnd, adjust_cnt>>
ages == <<decrease_age, adjust_age, ack_age>>
cc_vars == <<rates, ages, win_len, cwnd_achieved, new_ack_cc, congested, pc, calm>>

CcInit ==
    /\ cwnd = CwndMin * Scale /\ target_cwnd = MaxCwnd
    /\ adjust_cnt = -FastRecovery
    /\ decrease_age = 0 /\ adjust_age = 0 /\ ack_age = 0
    /\ win_len = 0
    /\ cwnd_achieved = FALSE /\ new_ack_cc = FALSE /\ congested = FALSE
    /\ pc = "rx" /\ calm = FALSE

Smaller(x, y) == IF x < y THEN x ELSE y

\* (win_size_t)window->cc.cwnd
Packets == cwnd \div Scale

-----------------------------------------------------------------------------
\* Time passes, n answers arrive and are processed; they may carry marks or
\* tell of a loss.
RxProcess(n) ==
    /\ pc = "rx"
    /\ n <= win_len
    /\ calm => n = Smaller(win_len, 1)
    /\ win_len' = win_len - n
    /\ new_ack_cc' = (new_ack_cc \/ n > 0)
    /\ \E mark \in BOOLEAN :
         /\ mark => ~calm
         /\ congested' = (congested \/ mark)
    /\ \E dt \in 1 .. TimeoutTime :
         /\ decrease_age' = Smaller(decrease_age + dt, ReactionTime)
         /\ adjust_age' = Smaller(adjust_age + dt, ReactionTime)
         /\ ack_age' = IF n > 0 THEN 0 ELSE Smaller(ack_age + dt, TimeoutTime)
    /\ pc' = "tx"
    /\ UNCHANGED <<rates, cwnd_achieved, calm>>

\* What shift_send may fill the window to.
expect_win_len ==
    Smaller(MaxWinLen - 1, Smaller(WinLimit, Smaller(Packets, win_len + Burst)))

\* Mutation of Achieved: the length of the window is not asked for.
Achieved_always(n) == TRUE

\* Does a window of n packets use the congestion window up?
Achieved(n) == n >= Packets

\* shift_send: n packets are in the window when it ends; when the network has
\* calmed down there is always more to send.
ShiftSend(n) ==
    /\ pc = "tx"
    /\ ~(ack_age >= TimeoutTime /\ win_len > 0)
    /\ IF win_len < expect_win_len
       THEN n \in win_len .. expect_win_len /\ (calm => n = expect_win_len)
       ELSE n = win_len
    /\ win_len' = n
    /\ cwnd_achieved' = (cwnd_achieved \/ Achieved(n))
    /\ ack_age' = IF n = 0 THEN 0 ELSE ack_age
    /\ pc' = "cc"
    /\ UNCHANGED <<rates, decrease_age, adjust_age, new_ack_cc, congested, calm>>

\* tx_process calls full_retrans, which calls cc_t::reinit; shift_send follows.
FullRetrans ==
    /\ pc = "tx"
    /\ ack_age >= TimeoutTime /\ win_len > 0
    /\ target_cwnd' = cwnd
    /\ cwnd' = CwndMin * Scale
    /\ adjust_cnt' = -FastRecovery
    /\ decrease_age' = 0 /\ adjust_age' = 0 /\ ack_age' = 0
    /\ UNCHANGED <<win_len, cwnd_achieved, new_ack_cc, congested, pc, calm>>

-----------------------------------------------------------------------------
\* Mutation of AtLeastMin: cwnd may fall to any value.
AtLeastMin_not(x) == x

AtLeastMin(x) == IF x < CwndMin * Scale THEN CwndMin * Scale ELSE x

\* adjust_rate(true)
AdjustDown ==
    /\ target_cwnd' = cwnd
    /\ \E x \in (cwnd \div 2) .. cwnd : cwnd' = AtLeastMin(x)
    /\ adjust_cnt' = -FastRecovery
    /\ cwnd_achieved' = FALSE

\* Mutation of Counted: the end of fast recovery is never reached.
Counted_not == adjust_cnt

Counted == adjust_cnt + 1

\* adjust_rate(false)
AdjustUp ==
    /\ IF cwnd_achieved
       THEN /\ target_cwnd' = IF adjust_cnt >= 0 THEN target_cwnd + Ai ELSE target_cwnd
            /\ adjust_cnt' = Counted
            /\ cwnd' = AtLeastMin((target_cwnd' + cwnd) \div 2)
       ELSE UNCHANGED rates
    /\ cwnd_achieved' = FALSE

\* congestion_control goes on: the last decrease has had time to work, and there
\* is an answer since.
MayAdjust == decrease_age >= ReactionTime /\ new_ack_cc

\* congestion_control
Decrease ==
    /\ pc = "cc"
    /\ MayAdjust
    /\ congested
    /\ AdjustDown
    /\ decrease_age' = 0 /\ adjust_age' = 0
    /\ congested' = FALSE /\ new_ack_cc' = FALSE
    /\ pc' = "rx"
    /\ UNCHANGED <<ack_age, win_len, calm>>

Increase ==
    /\ pc = "cc"
    /\ MayAdjust
    /\ ~congested
    /\ adjust_age >= ReactionTime
    /\ AdjustUp
    /\ adjust_age' = 0
    /\ new_ack_cc' = FALSE
    /\ pc' = "rx"
    /\ UNCHANGED <<decrease_age, ack_age, win_len, congested, calm>>

NoAdjust ==
    /\ pc = "cc"
    /\ ~MayAdjust \/ (~congested /\ adjust_age < ReactionTime)
    /\ pc' = "rx"
    /\ UNCHANGED <<rates, ages, win_len, cwnd_achieved, new_ack_cc, congested, calm>>

\* The network calms down.
CalmDown ==
    /\ ~calm
    /\ calm' = TRUE
    /\ UNCHANGED <<rates, ages, win_len, cwnd_achieved, new_ack_cc, congested, pc>>

Loop ==
    \/ \E n \in 0 .. MaxWinLen - 1 : RxProcess(n) \/ ShiftSend(n)
    \/ FullRetrans
    \/ Decrease \/ Increase \/ NoAdjust

CcNext == Loop \/ CalmDown

\* The worker loops for ever.
CcSpec == CcInit /\ [][CcNext]_cc_vars /\ WF_cc_vars(Loop)

-----------------------------------------------------------------------------
(***************************************************************************)
(* The window is never closed, which would stop the stream for good        *)
(* without answers to open it again, and cwnd stays below the length of    *)
(* the ring, as the assertion left in shift_send as a comment says.        *)
(***************************************************************************)
CwndBounds == CwndMin * Scale <= cwnd /\ cwnd < MaxWinLen * Scale

(***************************************************************************)
(* adjust_cnt, an int that every increase adds 1 to, cannot overflow: in a *)
(* long time without congestion the increases end because the window no    *)
(* longer achieves cwnd, after at most as many as the target has room for. *)
(***************************************************************************)
AdjustCntBounded == adjust_cnt * Ai <= MaxCwnd

(***************************************************************************)
(* When the network has calmed down, the window opens again up to the      *)
(* limit of the switch memory, however low timeouts have driven cwnd and   *)
(* its target, if there is data and cwnd is what limits the stream.        *)
(***************************************************************************)
CwndRecovers == calm ~> Packets >= WinLimit

\* The inductive invariant behind CwndBounds and AdjustCntBounded.
CcInv ==
    /\ cwnd \in Nat /\ target_cwnd \in Nat /\ adjust_cnt \in Int /\ win_len \in Nat
    /\ CwndMin * Scale <= cwnd /\ cwnd <= target_cwnd /\ target_cwnd <= MaxCwnd
    /\ win_len <= WinLimit
    /\ decrease_age \in 0 .. ReactionTime
    /\ cwnd_achieved => cwnd < (WinLimit + 1) * Scale
    /\ adjust_cnt >= -FastRecovery
    /\ target_cwnd - cwnd <= Gap[IF adjust_cnt >= 0 THEN 0 ELSE -adjust_cnt]
    /\ adjust_cnt >= 0 => adjust_cnt * Ai <= target_cwnd
=============================================================================
