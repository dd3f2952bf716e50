\* Three producers, two consumers, room for two elements: enough for a producer
\* to be overtaken between its wake-up and its re-test, for a notification to
\* meet a consumer that has just expired, and for a stop in the middle of both.
CONSTANTS
  Producers = {p1, p2, p3}
  Consumers = {c1, c2}
  Values = {v}
  MaxSize = 2
SPECIFICATION FairSpec
INVARIANTS TypeOK CapacityRespected NoLostConsumerWakeup NoLostProducerWakeup
PROPERTIES StoppedTakesNothing StopReleasesEveryone
