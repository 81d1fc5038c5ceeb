SPECIFICATION Spec
CONSTANTS
    Webhooks = {w1, w2}
    Browsers = {b1}
    Telegrams = {t1, t2}
    Chats = {c1, c2}
    Requests = {u1, u2}
SYMMETRY Symmetry
INVARIANTS TypeOK OneLiveBinding OneActiveTelegram SingleUse
PROPERTIES OnlyPendingActivates VerifiedWebhookYieldsToOverlap
CHECK_DEADLOCK FALSE
