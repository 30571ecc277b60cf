SPECIFICATION Spec
CONSTANTS
    Devices = {d1}
    Calls = {c1, c2}
    Main = Main
    Pubs = {p1, p2}
    Recs = {r1, r2}
    None = None
INVARIANTS TypeOK DownIsRetried OnePublisher NoLeakedConnection PublishesEnabled
PROPERTY BrokerComesBack
