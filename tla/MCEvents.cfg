CONSTANTS
    Channel = {"c", "d"}
    Sub = {"s1", "s2", "s3", "s4"}
    ChanOf <- MCChanOf
SPECIFICATION EventsSpec
INVARIANTS HandoversExact
PROPERTIES EachSubscriptionOnce NothingAfterUnsubscribe FeedBroadcasts EverythingReturns
CHECK_DEADLOCK FALSE
